---------------------------- MODULE Spec2Model ----------------------------
(***************************************************************************)
(* Model of the portfolio input-estimation and optimization core:          *)
(*   services/inputEstimationEngine.js   (InputEstimationEngine)           *)
(*   services/optimizationEngine.js      (PortfolioOptimizationEngine)     *)
(*   services/optimizationService.js     (runOptimization and helpers)     *)
(*   routes/optimization.js              (POST /optimize)                  *)
(*   services/marketDataService.js       (getHistoricalData)               *)
(*                                                                         *)
(* JavaScript numbers are IEEE-754 binary floating-point numbers. They are *)
(* modelled as binary floating-point numbers of MantissaBits bits of       *)
(* precision (instead of 53) and unbounded exponent:                       *)
(*   <<m, e>>  the finite number m * 2^e, m odd (or <<0, 0>> for zero);    *)
(*   <<0, 1>> NaN,  <<0, 2>> +Infinity,  <<0, 3>> -Infinity.               *)
(* Every operation computes the exact result and rounds it to the nearest  *)
(* representable number, ties to even, as IEEE-754 does; the special       *)
(* values follow IEEE-754. The sign of zero is not modelled.               *)
(***************************************************************************)
EXTENDS Integers, Sequences, FiniteSets, TLC

(***************************************************************************)
(* JavaScript number arithmetic                                            *)
(***************************************************************************)
MantissaBits == 10

AbsInt(a) == IF a < 0 THEN -a ELSE a

SignInt(a) == IF a < 0 THEN -1 ELSE IF a > 0 THEN 1 ELSE 0

RECURSIVE BitLen(_)
BitLen(n) == IF n = 0 THEN 0 ELSE 1 + BitLen(n \div 2)

NaN == <<0, 1>>
PosInf == <<0, 2>>
NegInf == <<0, 3>>
Zero == <<0, 0>>

IsNaN(x) == x = NaN
IsFinite(x) == x[1] # 0 \/ x[2] = 0
IsInf(x) == x = PosInf \/ x = NegInf

\* The sign of a number that is not NaN.
SignOf(x) == IF x = PosInf THEN 1 ELSE IF x = NegInf THEN -1 ELSE SignInt(x[1])

Inf(sign) == IF sign > 0 THEN PosInf ELSE IF sign < 0 THEN NegInf ELSE NaN

\* sign * a * 2^e (a > 0) with the trailing zero bits of a moved to e.
RECURSIVE Canon(_, _, _)
Canon(sign, a, e) ==
    IF a = 0 THEN Zero
    ELSE IF a % 2 = 0 THEN Canon(sign, a \div 2, e + 1)
    ELSE <<sign * a, e>>

\* sign * a * 2^e (a >= 0) rounded to MantissaBits bits, ties to even.
Round(sign, a, e) ==
    IF BitLen(a) <= MantissaBits THEN Canon(sign, a, e)
    ELSE LET sh == BitLen(a) - MantissaBits
             q == a \div (2 ^ sh)
             r == a % (2 ^ sh)
             half == 2 ^ (sh - 1)
             up == r > half \/ (r = half /\ q % 2 = 1)
         IN  Canon(sign, IF up THEN q + 1 ELSE q, e + sh)

\* The number nearest to the integer k, and to the fraction n/d (d > 0).
I(k) == Round(SignInt(k), AbsInt(k), 0)

NNeg(x) == IF IsFinite(x) THEN <<-x[1], x[2]>>
           ELSE IF x = PosInf THEN NegInf ELSE IF x = NegInf THEN PosInf ELSE NaN

\* The sum of two finite non-zero numbers. An operand more than
\* MantissaBits + 2 binary places below the other cannot change the result.
FinAdd(x, y) ==
    LET tx == x[2] + BitLen(AbsInt(x[1]))
        ty == y[2] + BitLen(AbsInt(y[1]))
        e == IF x[2] < y[2] THEN x[2] ELSE y[2]
        sum == x[1] * (2 ^ (x[2] - e)) + y[1] * (2 ^ (y[2] - e))
    IN  IF tx - ty > MantissaBits + 2 THEN x
        ELSE IF ty - tx > MantissaBits + 2 THEN y
        ELSE Round(SignInt(sum), AbsInt(sum), e)

NAdd(x, y) ==
    IF IsNaN(x) \/ IsNaN(y) THEN NaN
    ELSE IF IsInf(x) /\ IsInf(y) THEN (IF x = y THEN x ELSE NaN)
    ELSE IF IsInf(x) THEN x
    ELSE IF IsInf(y) THEN y
    ELSE IF x = Zero THEN y
    ELSE IF y = Zero THEN x
    ELSE FinAdd(x, y)

NSub(x, y) == NAdd(x, NNeg(y))

NMul(x, y) ==
    IF IsNaN(x) \/ IsNaN(y) THEN NaN
    ELSE IF IsInf(x) \/ IsInf(y) THEN Inf(SignOf(x) * SignOf(y))  \* Infinity * 0 = NaN
    ELSE Round(SignInt(x[1]) * SignInt(y[1]), AbsInt(x[1]) * AbsInt(y[1]), x[2] + y[2])

\* The quotient of two finite non-zero numbers: the dividend is widened to 30
\* bits, and a remainder is kept as a sticky bit for the rounding.
FinDiv(x, y) ==
    LET a == AbsInt(x[1])
        b == AbsInt(y[1])
        s == 30 - BitLen(a)
        q == (a * (2 ^ s)) \div b
        r == (a * (2 ^ s)) % b
        sign == SignInt(x[1]) * SignInt(y[1])
    IN  IF r = 0 THEN Round(sign, q, x[2] - s - y[2])
        ELSE Round(sign, 2 * q + 1, x[2] - s - y[2] - 1)

\* x / y: a finite non-zero number over 0 is +-Infinity, 0/0 and Inf/Inf are NaN.
NDiv(x, y) ==
    IF IsNaN(x) \/ IsNaN(y) THEN NaN
    ELSE IF IsInf(y) THEN (IF IsInf(x) THEN NaN ELSE Zero)
    ELSE IF y = Zero THEN Inf(SignOf(x))
    ELSE IF IsInf(x) THEN Inf(SignOf(x) * SignOf(y))
    ELSE IF x = Zero THEN Zero
    ELSE FinDiv(x, y)

Q(n, d) == NDiv(I(n), I(d))

One == I(1)

\* x < y and x > y: false whenever an operand is NaN.
NLt(x, y) == ~IsNaN(x) /\ ~IsNaN(y) /\ x # y /\
    (IF IsInf(x) \/ IsInf(y) THEN x = NegInf \/ y = PosInf
     ELSE SignOf(NSub(x, y)) < 0)

NGt(x, y) == NLt(y, x)

\* Math.max / Math.min: NaN if either argument is NaN.
NMax(x, y) == IF IsNaN(x) \/ IsNaN(y) THEN NaN ELSE IF NLt(x, y) THEN y ELSE x

NMin(x, y) == IF IsNaN(x) \/ IsNaN(y) THEN NaN ELSE IF NLt(y, x) THEN y ELSE x

NAbs(x) == IF IsFinite(x) THEN <<AbsInt(x[1]), x[2]>>
           ELSE IF IsNaN(x) THEN NaN ELSE PosInf

\* Truthiness of a number: 0 and NaN are falsy.
Truthy(x) == ~IsNaN(x) /\ x # Zero

\* The largest r in lo..hi with r * r <= n, by bisection.
RECURSIVE ISqrtBetween(_, _, _)
ISqrtBetween(n, lo, hi) ==
    IF lo >= hi THEN lo
    ELSE LET mid == (lo + hi + 1) \div 2
         IN  IF mid * mid <= n THEN ISqrtBetween(n, mid, hi)
             ELSE ISqrtBetween(n, lo, mid - 1)

ISqrt(n) == ISqrtBetween(n, 0, IF n < 46340 THEN n ELSE 46340)

\* The square root of a finite positive number: the mantissa is widened to 29
\* or 30 bits with an even exponent, an inexact root keeps a sticky bit.
FinSqrt(x) ==
    LET s0 == 30 - BitLen(x[1])
        s == IF (x[2] - s0) % 2 = 0 THEN s0 ELSE s0 - 1
        num == x[1] * (2 ^ s)
        r == ISqrt(num)
    IN  IF r * r = num THEN Round(1, r, (x[2] - s) \div 2)
        ELSE Round(1, 2 * r + 1, (x[2] - s) \div 2 - 1)

\* Math.sqrt: NaN below zero.
NSqrt(x) ==
    IF IsNaN(x) \/ x = NegInf THEN NaN
    ELSE IF x = PosInf THEN PosInf
    ELSE IF x = Zero THEN Zero
    ELSE IF x[1] < 0 THEN NaN
    ELSE FinSqrt(x)

\* acc + s[lo] + ... + s[hi], added from left to right: the sum of the first
\* half, then the second half added to it (NaN plus anything is NaN).
RECURSIVE FoldAdd(_, _, _, _)
FoldAdd(acc, s, lo, hi) ==
    IF lo > hi THEN acc
    ELSE IF lo = hi THEN NAdd(acc, s[lo])
    ELSE LET left == FoldAdd(acc, s, lo, (lo + hi) \div 2)
         IN  IF IsNaN(left) THEN NaN
             ELSE FoldAdd(left, s, (lo + hi) \div 2 + 1, hi)

\* s.reduce((a, b) => a + b, 0), and the loops that add to a sum that starts at 0.
SumSeq(s) == FoldAdd(Zero, s, 1, Len(s))

(***************************************************************************)
(* Vectors are sequences of numbers, matrices sequences of rows.           *)
(* Reading past the end of a JavaScript array yields undefined, which      *)
(* arithmetic turns into NaN.                                              *)
(***************************************************************************)
At(v, i) == IF i \in 1..Len(v) THEN v[i] ELSE NaN

Fill(n, x) == [i \in 1..n |-> x]

Dot(u, v) == SumSeq([i \in 1..Len(u) |-> NMul(u[i], At(v, i))])

\* The matrix without row r and column c.
Minor(m, r, c) ==
    [i \in 1..(Len(m) - 1) |->
        [j \in 1..(Len(m) - 1) |->
            m[IF i < r THEN i ELSE i + 1][IF j < c THEN j ELSE j + 1]]]

RECURSIVE Det(_)
Det(m) ==
    IF Len(m) = 1 THEN m[1][1]
    ELSE SumSeq([j \in 1..Len(m) |->
            NMul(IF j % 2 = 1 THEN m[1][j] ELSE NNeg(m[1][j]), Det(Minor(m, 1, j)))])

IsSquare(m) == \A i \in 1..Len(m) : Len(m[i]) = Len(m)

\* math.inv of mathjs throws on a non-square matrix and when the determinant
\* is zero ("Cannot calculate inverse, determinant is zero").
MathInvThrows(m) == ~IsSquare(m) \/ Det(m) = Zero

\* The matrix itself in place of its inverse.
MathInvNotInverted(m) == m

\* math.inv of mathjs where it does not throw: the inverse, adj(m) / det(m).
MathInv(m) ==
    IF Len(m) = 1 THEN <<<<NDiv(One, m[1][1])>>>>
    ELSE LET d == Det(m)
         IN  [i \in 1..Len(m) |->
                [j \in 1..Len(m) |->
                    NDiv(IF (i + j) % 2 = 0 THEN Det(Minor(m, j, i))
                                            ELSE NNeg(Det(Minor(m, j, i))), d)]]

MatVec(m, v) == [i \in 1..Len(m) |-> Dot(m[i], v)]

VecMat(v, m) == [j \in 1..Len(m) |-> SumSeq([i \in 1..Len(v) |-> NMul(v[i], m[i][j])])]

\* How a call ends: a thrown error object, whose message is the list of the
\* parts of its template string, or a returned value.
Error(name, message) == [status |-> "throw", error |-> [name |-> name, message |-> message]]

Ok(value) == [status |-> "ok", value |-> value]

\* const name = value; followed by the statements F that use the name.
Let(value, F(_)) == F(value)

(***************************************************************************)
(* PortfolioOptimizationEngine                                             *)
(***************************************************************************)
\* this.riskFreeRate = 0.02
RiskFreeRate == Q(2, 100)

calculatePortfolioReturn(weights, returns) == Dot(weights, returns)

calculatePortfolioVolatility(weights, covariance) ==
    NSqrt(SumSeq([i \in 1..Len(weights) |->
        SumSeq([j \in 1..Len(weights) |->
            NMul(NMul(weights[i], weights[j]), At(At(covariance, i), j))])]))

calculateSharpeRatio(weights, returns, covariance) ==
    Let(calculatePortfolioReturn(weights, returns), LAMBDA portfolioReturn :
    Let(calculatePortfolioVolatility(weights, covariance), LAMBDA portfolioVol :
        IF NGt(portfolioVol, Zero)
        THEN NDiv(NSub(portfolioReturn, RiskFreeRate), portfolioVol)
        ELSE Zero))

calculateMarginalRiskContributionsColumn0(weights, covariance) ==
    Let(calculatePortfolioVolatility(weights, covariance), LAMBDA portfolioVol :
        [i \in 1..Len(weights) |->
            NDiv(SumSeq([j \in 1..Len(weights) |->
                     NMul(weights[j], covariance[i][1])]), portfolioVol)])

calculateMarginalRiskContributions(weights, covariance) ==
    Let(calculatePortfolioVolatility(weights, covariance), LAMBDA portfolioVol :
        [i \in 1..Len(weights) |->
            NDiv(SumSeq([j \in 1..Len(weights) |->
                     NMul(weights[j], covariance[i][j])]), portfolioVol)])

calculateRiskContributions(weights, covariance) ==
    Let(calculateMarginalRiskContributions(weights, covariance),
        LAMBDA marginalContributions :
            [i \in 1..Len(weights) |-> NMul(weights[i], marginalContributions[i])])

\* constraints = [longOnly, maxWeight, minWeight]. longOnly is "true", "false"
\* or "undefined" (tested with !== false); maxWeight and minWeight are numbers
\* tested for truthiness, an absent field being represented by 0.
applyConstraints(weights, constraints) ==
    Let(IF constraints.longOnly # "false"
        THEN [i \in 1..Len(weights) |-> NMax(Zero, weights[i])]
        ELSE weights, LAMBDA longOnly :
    Let(IF Truthy(constraints.maxWeight)
        THEN [i \in 1..Len(weights) |-> NMin(longOnly[i], constraints.maxWeight)]
        ELSE longOnly, LAMBDA capped :
    Let(IF Truthy(constraints.minWeight)
        THEN [i \in 1..Len(weights) |-> NMax(capped[i], constraints.minWeight)]
        ELSE capped, LAMBDA floored :
    Let(SumSeq(floored), LAMBDA sum :
        IF NGt(sum, Zero)
        THEN [i \in 1..Len(weights) |-> NDiv(floored[i], sum)]
        ELSE floored))))

NoConstraints == [longOnly |-> "undefined", maxWeight |-> Zero, minWeight |-> Zero]

solveMinVariancePortfolio(returns, covariance, targetReturn, constraints) ==
    Fill(Len(returns), NDiv(One, I(Len(returns))))

solveCVaRApproximation(scenarioReturns, confidenceLevel, constraints) ==
    Fill(Len(scenarioReturns[1]), NDiv(One, I(Len(scenarioReturns[1]))))

\* A method's outcome: [status |-> "ok", weights, ...] or [status |-> "throw", error].
Thrown(message) == Error("Error", <<message>>)

meanVarianceOptimization(returns, covariance, targetReturn, constraints) ==
    IF Len(returns) # Len(covariance) \/ Len(covariance) # Len(covariance[1])
    THEN Thrown("Dimension mismatch between returns and covariance matrix")
    ELSE Let(solveMinVariancePortfolio(returns, covariance, targetReturn, constraints),
             LAMBDA weights :
                 [status |-> "ok",
                  weights |-> weights,
                  expectedReturn |-> calculatePortfolioReturn(weights, returns),
                  expectedVolatility |-> calculatePortfolioVolatility(weights, covariance),
                  sharpeRatio |-> calculateSharpeRatio(weights, returns, covariance)])

maximizeSharpeRatio(returns, covariance, constraints) ==
    IF MathInvThrows(covariance)
    THEN Thrown("Cannot calculate inverse, determinant is zero")
    ELSE IF Len(covariance) # Len(returns)
    THEN Thrown("Dimension mismatch")   \* math.multiply: RangeError
    ELSE
    Let(Len(returns), LAMBDA n :
    Let([i \in 1..n |-> NSub(returns[i], RiskFreeRate)], LAMBDA excessReturns :
    Let(MathInv(covariance), LAMBDA invCovariance :
    Let(MatVec(invCovariance, excessReturns), LAMBDA numerator :
    Let(Dot(VecMat(Fill(n, One), invCovariance), excessReturns), LAMBDA denominator :
    Let([i \in 1..n |-> NDiv(numerator[i], denominator)], LAMBDA weights :
    Let(applyConstraints(weights, constraints), LAMBDA constrainedWeights :
        [status |-> "ok",
         weights |-> constrainedWeights,
         expectedReturn |-> calculatePortfolioReturn(constrainedWeights, returns),
         expectedVolatility |->
             calculatePortfolioVolatility(constrainedWeights, covariance),
         sharpeRatio |->
             calculateSharpeRatio(constrainedWeights, returns, covariance)])))))))

\* One pass of the loop body of riskParityOptimization (lines 80-96): the
\* weights after the update and the renormalisation.
RiskParityStep(weights, covariance) ==
    Let(Len(covariance), LAMBDA n :
    Let(calculatePortfolioVolatility(weights, covariance), LAMBDA portfolioVol :
    Let(calculateMarginalRiskContributions(weights, covariance),
        LAMBDA marginalContributions :
    Let([i \in 1..n |->
            LET targetContribution == NDiv(portfolioVol, I(n))
                currentContribution == NMul(weights[i], marginalContributions[i])
                adjustment == NDiv(targetContribution, currentContribution)
            IN  NMul(weights[i], NSqrt(adjustment))], LAMBDA updated :
    Let(SumSeq(updated), LAMBDA sum :
        [i \in 1..n |-> NDiv(updated[i], sum)])))))

\* The change measured by the convergence check (line 99).
WeightChange(weights, oldWeights) ==
    SumSeq([i \in 1..Len(weights) |-> NAbs(NSub(weights[i], oldWeights[i]))])

\* The loop of lines 79-101 run for at most `iterations` passes: the weights
\* it ends with, and whether it ended at the break of line 100. A run of k
\* passes is the run of its first k \div 2 passes followed, unless they ended
\* at the break, by the remaining ones.
RECURSIVE RiskParityLoop(_, _, _, _)
RiskParityLoop(weights, covariance, iterations, tolerance) ==
    IF iterations <= 0 THEN [weights |-> weights, converged |-> FALSE]
    ELSE IF iterations = 1
    THEN Let(RiskParityStep(weights, covariance), LAMBDA next :
             [weights |-> next, converged |-> NLt(WeightChange(next, weights), tolerance)])
    ELSE LET first == RiskParityLoop(weights, covariance, iterations \div 2, tolerance)
         IN  IF first.converged THEN first
             ELSE RiskParityLoop(first.weights, covariance,
                                 iterations - iterations \div 2, tolerance)

\* Lines 103-108: what the method returns for the weights the loop ended with.
RiskParityResult(weights, covariance) ==
    [status |-> "ok",
     weights |-> weights,
     expectedVolatility |-> calculatePortfolioVolatility(weights, covariance),
     riskContributions |-> calculateRiskContributions(weights, covariance)]

riskParityOptimization(covariance, maxIterations, tolerance) ==
    Let(Len(covariance), LAMBDA n :
    Let(RiskParityLoop(Fill(n, NDiv(One, I(n))), covariance,
                       maxIterations, tolerance).weights, LAMBDA weights :
        RiskParityResult(weights, covariance)))

\* array.sort((a, b) => a - b) of numbers none of which is NaN: s[i] goes to
\* the place that counts the elements below it and the equal ones before it.
SortAscending(s) ==
    LET place(i) == 1 + Cardinality({j \in 1..Len(s) :
                        NLt(s[j], s[i]) \/ (s[j] = s[i] /\ j < i)})
    IN  IF \E i \in 1..Len(s) : IsNaN(s[i]) THEN s
        ELSE [r \in 1..Len(s) |-> s[CHOOSE i \in 1..Len(s) : place(i) = r]]

\* Math.floor(x) for a finite x >= 0, as an integer.
FloorInt(x) ==
    IF x[2] >= 0 THEN x[1] * (2 ^ x[2])
    ELSE IF -x[2] > 30 THEN 0
    ELSE x[1] \div (2 ^ (-x[2]))

calculateCVaR(weights, scenarioReturns, confidenceLevel) ==
    Let(SortAscending([s \in 1..Len(scenarioReturns) |->
                          calculatePortfolioReturn(weights, scenarioReturns[s])]),
        LAMBDA portfolioReturns :
    Let(FloorInt(NMul(confidenceLevel, I(Len(portfolioReturns)))), LAMBDA varIndex :
    Let(SubSeq(portfolioReturns, 1, varIndex), LAMBDA tailReturns :
        NDiv(SumSeq(tailReturns), I(Len(tailReturns))))))

calculateExpectedReturn(weights, scenarioReturns) ==
    Let([s \in 1..Len(scenarioReturns) |->
            calculatePortfolioReturn(weights, scenarioReturns[s])],
        LAMBDA scenarioPortfolioReturns :
            NDiv(SumSeq(scenarioPortfolioReturns), I(Len(scenarioPortfolioReturns))))

\* scenarioReturns[0].length of an empty scenario list is a TypeError.
cvarOptimization(scenarioReturns, confidenceLevel, constraints) ==
    IF Len(scenarioReturns) = 0
    THEN Thrown("Cannot read properties of undefined (reading 'length')")
    ELSE Let(solveCVaRApproximation(scenarioReturns, confidenceLevel, constraints),
             LAMBDA weights :
                 [status |-> "ok",
                  weights |-> weights,
                  expectedCVaR |-> calculateCVaR(weights, scenarioReturns, confidenceLevel),
                  expectedReturn |-> calculateExpectedReturn(weights, scenarioReturns)])

bayesianUpdate(priorReturns, priorCovariance, views, tau) == priorReturns

\* views is "none" (no P or Q given) or "given".
blackLittermanOptimization(marketCapWeights, covariance, views, tau) ==
    IF \E i \in 1..Len(covariance) : Len(covariance[i]) # Len(marketCapWeights)
    THEN Thrown("Dimension mismatch")   \* math.multiply: RangeError
    ELSE
    Let(I(3), LAMBDA riskAversion :
    Let(MatVec([i \in 1..Len(covariance) |->
                   [j \in 1..Len(covariance[i]) |-> NMul(riskAversion, covariance[i][j])]],
               marketCapWeights), LAMBDA equilibriumReturns :
        IF views = "none"
        THEN [status |-> "ok",
              weights |-> marketCapWeights,
              expectedReturns |-> equilibriumReturns,
              expectedReturn |->
                  calculatePortfolioReturn(marketCapWeights, equilibriumReturns),
              expectedVolatility |->
                  calculatePortfolioVolatility(marketCapWeights, covariance)]
        ELSE meanVarianceOptimization(
                 bayesianUpdate(equilibriumReturns, covariance, views, tau),
                 covariance, "null", NoConstraints)))

(***************************************************************************)
(* InputEstimationEngine                                                   *)
(*                                                                         *)
(* A JavaScript object is a sequence of entries [k, v] in insertion order  *)
(* (the order Object.keys reports). A price history is the sequence of its *)
(* closes; a close is given by its level k >= 0, standing for the price    *)
(* b^k of some base b > 1, so that Math.log(p / q) is the difference of    *)
(* the two levels, in units of ln b.                                       *)
(***************************************************************************)
Keys(obj) == [i \in 1..Len(obj) |-> obj[i].k]

Has(obj, key) == \E i \in 1..Len(obj) : obj[i].k = key

Get(obj, key) == obj[CHOOSE i \in 1..Len(obj) : obj[i].k = key].v

\* this.defaultLookbackPeriod = 252
defaultLookbackPeriod == 252

\* options.lookback || this.defaultLookbackPeriod (an absent lookback is 0).
LookbackOf(options) ==
    IF options.lookback = 0 THEN defaultLookbackPeriod ELSE options.lookback

\* prices.slice(-lookback), lookback > 0
SliceLast(s, k) == IF Len(s) <= k THEN s ELSE SubSeq(s, Len(s) - k + 1, Len(s))

\* Math.log(cur / prev) for two closes. A close is the number e^level for a
\* level >= 0; the level -1 stands for the close 0 and the level -2 for the
\* close -1. 0 / p is 0 and its logarithm -Infinity, p / 0 is Infinity, 0 / -1
\* is -0 with the logarithm -Infinity, -1 / -1 is 1, and the logarithm of a
\* negative quotient or of 0 / 0 is NaN.
LogReturn(cur, prev) ==
    CASE cur >= 0 /\ prev >= 0 -> I(cur - prev)
      [] cur = -2 /\ prev = -2 -> Zero
      [] cur = -1 /\ prev >= 0 -> NegInf
      [] cur = -1 /\ prev = -2 -> NegInf
      [] cur >= 0 /\ prev = -1 -> PosInf
      [] OTHER -> NaN

\* The daily log returns of a price series (the loops over i = 1..length-1).
ReturnsOf(prices) == [i \in 1..(Len(prices) - 1) |-> LogReturn(prices[i + 1], prices[i])]

Annualize(x) == NMul(x, I(252))

RECURSIVE NPow(_, _)
NPow(x, k) == IF k = 0 THEN One ELSE NMul(x, NPow(x, k - 1))

historicalMeanOfUnguarded(prices) ==
    Annualize(NDiv(SumSeq(ReturnsOf(prices)), I(Len(prices) - 1)))

\* The value historicalMeanReturns stores for one symbol (lines 57-70).
historicalMeanOf(prices) ==
    IF Len(prices) < 2 THEN Zero
    ELSE Annualize(NDiv(SumSeq(ReturnsOf(prices)), I(Len(prices) - 1)))

historicalMeanReturns(priceHistory, options) ==
    [i \in 1..Len(priceHistory) |->
        [k |-> priceHistory[i].k,
         v |-> historicalMeanOf(SliceLast(priceHistory[i].v, LookbackOf(options)))]]

\* const lambda = options.lambda || 0.94
Lambda == Q(94, 100)

\* The value exponentialWeightedReturns stores for one symbol (lines 86-103).
exponentialWeightedOf(prices) ==
    IF Len(prices) < 2 THEN Zero
    ELSE Let(ReturnsOf(prices), LAMBDA r :
         Let([i \in 1..Len(r) |-> NPow(Lambda, Len(r) - i)], LAMBDA weight :
         Let(SumSeq([i \in 1..Len(r) |-> NMul(weight[i], r[i])]), LAMBDA weightedSum :
         Let(SumSeq(weight), LAMBDA weightSum :
             Annualize(NDiv(weightedSum, weightSum))))))

exponentialWeightedReturns(priceHistory, options) ==
    [i \in 1..Len(priceHistory) |->
        [k |-> priceHistory[i].k,
         v |-> exponentialWeightedOf(SliceLast(priceHistory[i].v, LookbackOf(options)))]]

calculateCovariance(series1, series2) ==
    IF Len(series1) # Len(series2) \/ Len(series1) = 0 THEN Zero
    ELSE Let(Len(series1), LAMBDA n :
         Let(NDiv(SumSeq(series1), I(n)), LAMBDA mean1 :
         Let(NDiv(SumSeq(series2), I(n)), LAMBDA mean2 :
         Let(SumSeq([i \in 1..n |->
                 NMul(NSub(series1[i], mean1), NSub(series2[i], mean2))]),
             LAMBDA covariance : NDiv(covariance, I(n - 1))))))

calculateVariance(series) ==
    IF Len(series) = 0 THEN Zero
    ELSE Let(Len(series), LAMBDA n :
         Let(NDiv(SumSeq(series), I(n)), LAMBDA mean :
         Let(SumSeq([i \in 1..n |->
                 NMul(NSub(series[i], mean), NSub(series[i], mean))]),
             LAMBDA variance : NDiv(variance, I(n - 1)))))

\* const marketSymbol = options.marketSymbol || 'SPY'
MarketSymbol == "SPY"

WithoutMarket(keys) == SelectSeq(keys, LAMBDA s : s # MarketSymbol)

\* calculateBetas: the betas object; {} when the market has under 2 prices.
calculateBetas(priceHistory, options) ==
    Let(LookbackOf(options), LAMBDA lookback :
    Let(WithoutMarket(Keys(priceHistory)), LAMBDA symbols :
    Let(IF Has(priceHistory, MarketSymbol)
        THEN SliceLast(Get(priceHistory, MarketSymbol), lookback)
        ELSE <<>>, LAMBDA marketPrices :
    Let(ReturnsOf(marketPrices), LAMBDA marketReturns :
        LET betaOf(symbol) ==
                Let(SliceLast(Get(priceHistory, symbol), lookback), LAMBDA assetPrices :
                Let(ReturnsOf(assetPrices), LAMBDA assetReturns :
                Let(IF Len(marketReturns) < Len(assetReturns)
                    THEN Len(marketReturns) ELSE Len(assetReturns), LAMBDA minLength :
                Let(SliceLast(marketReturns, minLength), LAMBDA alignedMarketReturns :
                Let(SliceLast(assetReturns, minLength), LAMBDA alignedAssetReturns :
                Let(calculateCovariance(alignedAssetReturns, alignedMarketReturns),
                    LAMBDA covariance :
                Let(calculateVariance(alignedMarketReturns), LAMBDA marketVariance :
                    IF Len(assetPrices) < 2 THEN One
                    ELSE IF NGt(marketVariance, Zero)
                    THEN NDiv(covariance, marketVariance)
                    ELSE One)))))))
        IN  IF Len(marketPrices) < 2 THEN <<>>
            ELSE [i \in 1..Len(symbols) |->
                     [k |-> symbols[i], v |-> betaOf(symbols[i])]]))))

capmReturns(priceHistory, options) ==
    Let(Q(2, 100), LAMBDA riskFreeRate :
    Let(Q(8, 100), LAMBDA marketReturn :
    Let(WithoutMarket(Keys(priceHistory)), LAMBDA symbols :
    Let(calculateBetas(priceHistory, options), LAMBDA betas :
        LET betaFor(symbol) ==
                IF Has(betas, symbol) /\ Truthy(Get(betas, symbol))
                THEN Get(betas, symbol) ELSE One
        IN  [i \in 1..Len(symbols) |->
                [k |-> symbols[i],
                 v |-> NAdd(riskFreeRate,
                            NMul(betaFor(symbols[i]),
                                 NSub(marketReturn, riskFreeRate)))]]))))

\* throw new Error(`Unknown return estimation method: ${method}`)
UnknownReturnMethodUnnamed(method) ==
    Error("Error", <<"Unknown return estimation method">>)

UnknownReturnMethod(method) ==
    Error("Error", <<"Unknown return estimation method: ", method>>)

\* throw new Error(`Unknown covariance estimation method: ${method}`)
UnknownCovarianceMethod(method) ==
    Error("Error", <<"Unknown covariance estimation method: ", method>>)

\* The switch of estimateExpectedReturns. The class defines no
\* blackLittermanReturns, so that case calls undefined.
estimateExpectedReturns(priceHistory, method, options) ==
    CASE method = "historical_mean" -> Ok(historicalMeanReturns(priceHistory, options))
      [] method = "exponential_weighted" ->
            Ok(exponentialWeightedReturns(priceHistory, options))
      [] method = "capm" -> Ok(capmReturns(priceHistory, options))
      [] method = "black_litterman" ->
            Error("TypeError", <<"this.blackLittermanReturns is not a function">>)
      [] OTHER -> UnknownReturnMethod(method)

DefaultEntryZero(i, j) == Zero

\* covMatrix[i][j] = i === j ? 0.01 : 0, the entry of a pair with an empty
\* return series.
DefaultEntry(i, j) == IF i = j THEN Q(1, 100) ELSE Zero

sampleCovarianceMatrix(priceHistory, options) ==
    Let(LookbackOf(options), LAMBDA lookback :
    Let(Keys(priceHistory), LAMBDA symbols :
    Let(Len(symbols), LAMBDA n :
    Let([i \in 1..n |->
            Let(SliceLast(priceHistory[i].v, lookback), LAMBDA prices :
                IF Len(prices) < 2 THEN <<>> ELSE ReturnsOf(prices))],
        LAMBDA returnSeries :
        LET entry(i, j) ==
                Let(returnSeries[i], LAMBDA returns1 :
                Let(returnSeries[j], LAMBDA returns2 :
                Let(IF Len(returns1) < Len(returns2)
                    THEN Len(returns1) ELSE Len(returns2), LAMBDA minLength :
                Let(SliceLast(returns1, minLength), LAMBDA aligned1 :
                Let(SliceLast(returns2, minLength), LAMBDA aligned2 :
                    IF Len(returns1) > 0 /\ Len(returns2) > 0
                    THEN IF i = j THEN Annualize(calculateVariance(aligned1))
                         ELSE Annualize(calculateCovariance(aligned1, aligned2))
                    ELSE DefaultEntry(i, j))))))
        IN  [matrix |-> [i \in 1..n |-> [j \in 1..n |-> entry(i, j)]],
             symbols |-> symbols]))))

calculateOptimalShrinkage(sampleCov) == Q(1, 10)

calculateAverageCovariance(matrix) ==
    Let(Len(matrix), LAMBDA n :
    Let(SumSeq([i \in 1..n |->
            SumSeq([j \in 1..n |-> IF i # j THEN matrix[i][j] ELSE Zero])]), LAMBDA sum :
    Let(n * (n - 1), LAMBDA count :
        IF count > 0 THEN NDiv(sum, I(count)) ELSE Zero)))

\* options.shrinkageIntensity || this.calculateOptimalShrinkage(sampleCov)
shrinkageIntensityOf(options, sampleCov) ==
    IF Truthy(options.shrinkageIntensity) THEN options.shrinkageIntensity
    ELSE calculateOptimalShrinkage(sampleCov)

shrinkageCovarianceMatrix(priceHistory, options) ==
    Let(sampleCovarianceMatrix(priceHistory, options), LAMBDA sampleCov :
    Let(shrinkageIntensityOf(options, sampleCov), LAMBDA shrinkageIntensity :
    Let(Len(sampleCov.symbols), LAMBDA n :
    Let(sampleCov.matrix, LAMBDA sampleMatrix :
    Let(NDiv(SumSeq([i \in 1..n |-> sampleMatrix[i][i]]), I(n)), LAMBDA avgVariance :
    Let(calculateAverageCovariance(sampleMatrix), LAMBDA avgCovariance :
    Let([i \in 1..n |-> [j \in 1..n |-> IF i = j THEN avgVariance ELSE avgCovariance]],
        LAMBDA targetMatrix :
    Let([i \in 1..n |-> [j \in 1..n |->
            NAdd(NMul(NSub(One, shrinkageIntensity), sampleMatrix[i][j]),
                 NMul(shrinkageIntensity, targetMatrix[i][j]))]], LAMBDA shrunkMatrix :
        [matrix |-> shrunkMatrix, symbols |-> sampleCov.symbols]))))))))

factorModelCovariance(priceHistory, options) == sampleCovarianceMatrix(priceHistory, options)

estimateCovarianceMatrix(priceHistory, method, options) ==
    CASE method = "sample" -> Ok(sampleCovarianceMatrix(priceHistory, options))
      [] method = "shrinkage" -> Ok(shrinkageCovarianceMatrix(priceHistory, options))
      [] method = "factor_model" -> Ok(factorModelCovariance(priceHistory, options))
      [] OTHER -> UnknownCovarianceMethod(method)

(***************************************************************************)
(* optimizationService.js: runOptimization and its helpers                 *)
(*                                                                         *)
(* A holding is a row [symbol, category, quantity, current_price,          *)
(* average_cost]; a current_price of 0 also stands for the NULL of the     *)
(* LEFT JOIN (both are falsy). A JavaScript value that is an object or an  *)
(* array carries its type, because generateImplementationPlan calls        *)
(* forEach on its argument.                                                *)
(***************************************************************************)
\* obj[key] = value: a present key keeps its place, a new key goes last.
PutKey(obj, key, value) ==
    IF Has(obj, key)
    THEN [i \in 1..Len(obj) |-> IF obj[i].k = key THEN [k |-> key, v |-> value] ELSE obj[i]]
    ELSE Append(obj, [k |-> key, v |-> value])

\* x || y for numbers.
OrElse(x, y) == IF Truthy(x) THEN x ELSE y

\* parseFloat(x.toFixed(2)): x rounded to hundredths, halves away from zero.
\* A number with a non-negative exponent is an integer already.
ToFixed2(x) ==
    IF ~IsFinite(x) \/ x[2] >= 0 THEN x
    ELSE IF -x[2] > 24 THEN Zero
    ELSE LET hundredths == (AbsInt(x[1]) * 200 + 2 ^ (-x[2])) \div (2 ^ (1 - x[2]))
         IN  NDiv(I(SignInt(x[1]) * hundredths), I(100))

HoldingValue(holding) ==
    NMul(holding.quantity, OrElse(holding.current_price, holding.average_cost))

\* The categories of the holdings in the order the Map first sees them.
RECURSIVE CategoriesOf(_)
CategoriesOf(holdings) ==
    IF holdings = <<>> THEN <<>>
    ELSE LET before == CategoriesOf(SubSeq(holdings, 1, Len(holdings) - 1))
             category == holdings[Len(holdings)].category
         IN  IF \E i \in 1..Len(before) : before[i] = category THEN before
             ELSE Append(before, category)

calculateCurrentAllocation(holdings) ==
    Let(SumSeq([i \in 1..Len(holdings) |-> HoldingValue(holdings[i])]),
        LAMBDA totalValue :
    Let(CategoriesOf(holdings), LAMBDA categories :
        LET valueOf(category) ==
                SumSeq([i \in 1..Len(holdings) |->
                           IF holdings[i].category = category
                           THEN HoldingValue(holdings[i]) ELSE Zero])
        IN  [i \in 1..Len(categories) |->
                Let(valueOf(categories[i]), LAMBDA value :
                    [name |-> categories[i],
                     value |-> value,
                     percentage |-> IF NGt(totalValue, Zero)
                                    THEN NMul(NDiv(value, totalValue), I(100))
                                    ELSE Zero])]))

\* currentAllocation.find(item => item.name === symbol)?.percentage || 0
CurrentWeightOf(currentAllocation, symbol) ==
    IF \E i \in 1..Len(currentAllocation) : currentAllocation[i].name = symbol
    THEN OrElse(currentAllocation[CHOOSE i \in 1..Len(currentAllocation) :
                    currentAllocation[i].name = symbol
                    /\ \A j \in 1..(i - 1) : currentAllocation[j].name # symbol].percentage,
                Zero)
    ELSE Zero

\* The object built by symbols.reduce (lines 137-143, 221-227) from the
\* first `count` symbols; percentage holds the number its string reads as.
RECURSIVE AllocationEntries(_, _, _)
AllocationEntries(symbols, weights, count) ==
    IF count = 0 THEN <<>>
    ELSE PutKey(AllocationEntries(symbols, weights, count - 1), symbols[count],
                [percentage |-> ToFixed2(NMul(At(weights, count), I(100))),
                 change |-> Zero])

\* Lines 149-153: the change of every entry.
WithChanges(entries, currentAllocation) ==
    [i \in 1..Len(entries) |->
        [k |-> entries[i].k,
         v |-> [percentage |-> entries[i].v.percentage,
                change |-> NSub(entries[i].v.percentage,
                                CurrentWeightOf(currentAllocation, entries[i].k))]]]

\* The trade generateImplementationPlan pushes for one entry of an array.
TradeOf(optimized) ==
    [sector |-> optimized.name,
     action |-> IF NGt(optimized.change, Zero) THEN "BUY" ELSE "SELL",
     change_percent |-> optimized.change,
     priority |-> IF NGt(NAbs(optimized.change), I(5)) THEN "HIGH" ELSE "MEDIUM"]

\* The trades left in the order they were pushed.
SortTradesUnsorted(trades) == trades

\* trades.sort by |change_percent| descending; the sort is stable.
SortTrades(trades) ==
    LET size(i) == NAbs(trades[i].change_percent)
        place(i) == 1 + Cardinality({j \in 1..Len(trades) :
                        NGt(size(j), size(i)) \/ (~NGt(size(i), size(j)) /\ j < i)})
    IN  [r \in 1..Len(trades) |-> trades[CHOOSE i \in 1..Len(trades) : place(i) = r]]

\* An object has no forEach: called with one, the function throws a TypeError.
generateImplementationPlan(currentAllocation, optimizedAllocation) ==
    IF optimizedAllocation.type # "array"
    THEN Error("TypeError", <<"optimizedAllocation.forEach is not a function">>)
    ELSE LET items == optimizedAllocation.items
             significant == SelectSeq(items, LAMBDA o : NGt(NAbs(o.change), One))
         IN  Ok(SortTrades([i \in 1..Len(significant) |-> TradeOf(significant[i])]))

\* generateEfficientFrontier calls the async meanVarianceOptimization without
\* await: result is a promise, whose expectedReturn, expectedVolatility and
\* weights are undefined, and a rejection of the promise is not caught here.
generateEfficientFrontier(returns, covariance, numPoints) ==
    [i \in 1..numPoints |->
        [expectedReturn |-> "undefined",
         expectedVolatility |-> "undefined",
         weights |-> "undefined"]]

\* The promises of generateEfficientFrontier that are rejected: the error of
\* each call of meanVarianceOptimization that throws. No handler is attached
\* to them, and the try block has returned before they are rejected.
UnhandledRejections(returns, covariance, numPoints) ==
    Let(meanVarianceOptimization(returns, covariance, "targetReturn", NoConstraints),
        LAMBDA result :
            IF result.status = "throw" THEN [i \in 1..numPoints |-> result.error]
            ELSE <<>>)

\* Lines 164-168: undefined * 100 is NaN.
FrontierPointOf(point) ==
    [risk |-> IF point.expectedVolatility = "undefined" THEN NaN
              ELSE NMul(point.expectedVolatility, I(100)),
     return |-> IF point.expectedReturn = "undefined" THEN NaN
                ELSE NMul(point.expectedReturn, I(100)),
     weights |-> point.weights]

\* estimation.returns || 'historical_mean', estimation.covariance || 'shrinkage',
\* estimation.lookback || 504 (an absent field is "" or 0).
ReturnsMethodOf(estimation) ==
    IF estimation.returns = "" THEN "historical_mean" ELSE estimation.returns

CovarianceMethodOf(estimation) ==
    IF estimation.covariance = "" THEN "shrinkage" ELSE estimation.covariance

LookbackDaysOf(estimation) == IF estimation.lookback = 0 THEN 504 ELSE estimation.lookback

EstimationOptions(estimation) ==
    [lookback |-> LookbackDaysOf(estimation), shrinkageIntensity |-> Zero]

\* Lines 65-69.
constraintsForOptimization(options) ==
    [longOnly |-> IF options.constraints.allowShortSelling THEN "false" ELSE "true",
     maxWeight |-> IF options.max_position_size # 0
                   THEN NDiv(I(options.max_position_size), I(100)) ELSE Q(3, 10),
     minWeight |-> IF options.constraints.minPositionSize # 0
                   THEN NDiv(I(options.constraints.minPositionSize), I(100))
                   ELSE Q(1, 100)]

\* Math.min(...values); Infinity for no values.
RECURSIVE MinOf(_)
MinOf(values) ==
    IF values = <<>> THEN PosInf
    ELSE NMin(MinOf(SubSeq(values, 1, Len(values) - 1)), values[Len(values)])

\* generateMonteCarloScenarios (lines 272-295): returns is an array and
\* covariance.symbols[i] a symbol, so returns[covariance.symbols[i]] is
\* undefined and every component is NaN + shock * Math.sqrt(horizon) = NaN,
\* whatever the shock drawn; a scenario has one component per row of the
\* Cholesky factor of covariance.matrix.
generateMonteCarloScenarios(returns, covariance, numScenarios) ==
    [s \in 1..numScenarios |-> [i \in 1..Len(covariance.matrix) |-> NaN]]

\* The defaults of riskParityOptimization(covariance, maxIterations = 100,
\* tolerance = 1e-6), the 1000 scenarios and the 50 frontier points that
\* runOptimization asks for.
DefaultMaxIterations == 100

DefaultTolerance == Q(1, 1000000)

NumScenarios == 1000

FrontierPoints == 50

OptimizationMethods ==
    {"mean-variance", "black-litterman", "risk-parity", "min-volatility", "max-sharpe",
     "cvar-min"}

\* minReturn * 1.1 with minReturn = Math.min(...returnsArray), the target
\* return of the min-volatility case.
MinVolatilityTarget(returnsArray) == NMul(MinOf(returnsArray), Q(11, 10))

\* The switch of lines 74-134: what the optimizer called for `method` answers.
RunMethod(method, returnsArray, covarianceResult, constraints) ==
    CASE method = "mean-variance" ->
            meanVarianceOptimization(returnsArray, covarianceResult.matrix, "null",
                                     constraints)
      [] method = "max-sharpe" ->
            maximizeSharpeRatio(returnsArray, covarianceResult.matrix, constraints)
      [] method = "risk-parity" ->
            riskParityOptimization(covarianceResult.matrix, DefaultMaxIterations,
                                   DefaultTolerance)
      [] method = "min-volatility" ->
            meanVarianceOptimization(returnsArray, covarianceResult.matrix,
                                     MinVolatilityTarget(returnsArray), constraints)
      [] method = "cvar-min" ->
            cvarOptimization(
                generateMonteCarloScenarios(returnsArray, covarianceResult, NumScenarios),
                Q(5, 100), constraints)
      [] method = "black-litterman" ->
            blackLittermanOptimization(
                Fill(Len(returnsArray), NDiv(One, I(Len(returnsArray)))),
                covarianceResult.matrix, "none", Q(25, 1000))
      [] OTHER -> Thrown("Unknown optimization method")

\* A field the optimizer's answer may lack: undefined || fallback.
FieldOr(result, field, fallback) ==
    IF field \in DOMAIN result THEN OrElse(result[field], fallback) ELSE fallback

\* Lines 136-190: what the try block computes after the optimizer answered,
\* and how it ends (a returned result, or the error thrown on the way).
AssembleResult(options, holdings, symbols, returnsArray, covarianceResult, result) ==
    Let(calculateCurrentAllocation(holdings), LAMBDA currentAllocation :
    Let([type |-> "object",
         entries |-> WithChanges(AllocationEntries(symbols, result.weights, Len(symbols)),
                                 currentAllocation)], LAMBDA optimizedAllocation :
    Let(IF options.method = "mean-variance"
        THEN generateEfficientFrontier(returnsArray, covarianceResult.matrix,
                                       FrontierPoints)
        ELSE <<>>, LAMBDA frontierPoints :
    Let([i \in 1..Len(frontierPoints) |-> FrontierPointOf(frontierPoints[i])],
        LAMBDA efficientFrontier :
    Let(generateImplementationPlan(currentAllocation, optimizedAllocation), LAMBDA plan :
        [current_allocation |-> currentAllocation,
         optimized_allocation |-> optimizedAllocation,
         efficient_frontier |-> efficientFrontier,
         end |-> IF plan.status = "throw" THEN plan
                 ELSE Ok([method |-> options.method,
                          risk_tolerance |-> options.risk_tolerance,
                          current_allocation |-> currentAllocation,
                          optimized_allocation |-> optimizedAllocation,
                          expected_return |-> FieldOr(result, "expectedReturn", Q(8, 100)),
                          expected_volatility |->
                              FieldOr(result, "expectedVolatility", Q(16, 100)),
                          sharpe_ratio |-> FieldOr(result, "sharpeRatio", Q(1, 2)),
                          cvar |-> IF "expectedCVaR" \in DOMAIN result
                                   THEN result.expectedCVaR ELSE "undefined",
                          implementation_plan |-> plan.value,
                          estimation_methods |->
                              [returns |-> ReturnsMethodOf(options.estimation),
                               covariance |-> CovarianceMethodOf(options.estimation),
                               lookback_days |-> LookbackDaysOf(options.estimation)]])])))))

\* The weights of runSimpleOptimization (lines 204-219); random[i] is the
\* value Math.random() gives for holding i.
SimpleWeights(holdings, method, random) ==
    IF method = "min-volatility"
    THEN Let([i \in 1..Len(holdings) |-> NAdd(NMul(random[i], Q(1, 2)), Q(1, 2))],
             LAMBDA drawn :
         Let(SumSeq(drawn), LAMBDA sum :
             [i \in 1..Len(holdings) |-> NDiv(drawn[i], sum)]))
    ELSE Fill(Len(holdings), NDiv(One, I(Len(holdings))))

runSimpleOptimization(holdings, method, constraints, random) ==
    Let([i \in 1..Len(holdings) |-> holdings[i].symbol], LAMBDA symbols :
    Let(SimpleWeights(holdings, method, random), LAMBDA weights :
    Let([type |-> "object",
         entries |-> AllocationEntries(symbols, weights, Len(symbols))],
        LAMBDA optimizedAllocation :
    Let(calculateCurrentAllocation(holdings), LAMBDA currentAllocation :
    Let(generateImplementationPlan(currentAllocation, optimizedAllocation), LAMBDA plan :
        [weights |-> weights,
         optimized_allocation |-> optimizedAllocation,
         end |-> IF plan.status = "throw" THEN plan
                 ELSE Ok([method |-> method,
                          risk_tolerance |-> 50,
                          current_allocation |-> currentAllocation,
                          optimized_allocation |-> optimizedAllocation,
                          expected_return |-> Q(8, 100),
                          expected_volatility |-> Q(16, 100),
                          sharpe_ratio |-> Q(1, 2),
                          implementation_plan |-> plan.value,
                          estimation_methods |->
                              [returns |-> "simple_fallback",
                               covariance |-> "simple_fallback",
                               lookback_days |-> 252]])])))))

\* routes/optimization.js, POST /apply/:id, lines 153-187: the trades for the
\* entries [category, percentage] of the stored allocation, in their order.
\* The current value of a category is the value of the first holding found
\* with that category.
ApplyTrades(optimizedAllocation, currentHoldings) ==
    Let(SumSeq([i \in 1..Len(currentHoldings) |-> HoldingValue(currentHoldings[i])]),
        LAMBDA totalValue :
    Let(NMul(totalValue, Q(1, 100)), LAMBDA threshold :
    Let([a \in 1..Len(optimizedAllocation) |->
            LET allocation == optimizedAllocation[a]
                targetValue == NMul(totalValue, NDiv(allocation.percentage, I(100)))
                found == {i \in 1..Len(currentHoldings) :
                             currentHoldings[i].category = allocation.category}
            IN  IF found # {}
                THEN LET currentHolding ==
                             currentHoldings[CHOOSE i \in found : \A j \in found : i <= j]
                         currentValue == HoldingValue(currentHolding)
                         difference == NSub(targetValue, currentValue)
                     IN  [push |-> NGt(NAbs(difference), threshold),
                          trade |-> [category |-> allocation.category,
                                     action |-> IF NGt(difference, Zero) THEN "BUY"
                                                ELSE "SELL",
                                     amount |-> NAbs(difference),
                                     current_value |-> currentValue,
                                     target_value |-> targetValue]]
                ELSE [push |-> NGt(targetValue, threshold),
                      trade |-> [category |-> allocation.category,
                                 action |-> "BUY",
                                 amount |-> targetValue,
                                 current_value |-> Zero,
                                 target_value |-> targetValue]]], LAMBDA candidates :
    Let(SelectSeq(candidates, LAMBDA candidate : candidate.push), LAMBDA pushed :
        [trades |-> [i \in 1..Len(pushed) |-> pushed[i].trade],
         total_value |-> totalValue]))))

\* What getHistoricalData of marketDataService.js hands back for the answer of
\* yahooFinanceService.getHistoricalData: its catch turns a failure into [],
\* as the catch of the fetch loop (lines 42-45) would.
FetchedHistoryPlaceholder(outcome) ==
    IF outcome.status = "ok" THEN outcome.value ELSE <<0>>

FetchedHistory(outcome) ==
    IF outcome.status = "ok" THEN outcome.value ELSE <<>>

(***************************************************************************)
(* The state machine.                                                      *)
(*                                                                         *)
(* pc, req ... http are one POST /optimize request on its way through the  *)
(* route handler and runOptimization; call and ret are one direct call of  *)
(* a method of one of the two engines and what it answered.                *)
(***************************************************************************)
VARIABLES
    pc,                 \* where the request (or the direct call) stands
    req,                \* the request body
    holdings,           \* the rows of the holdings query
    priceHistories,     \* the object filled by the fetch loop
    fetchLog,           \* per fetched holding: its symbol, whether the fetch failed, the series answered
    steps,              \* the steps of runOptimization completed so far, in order
    expectedReturns,    \* the object estimateExpectedReturns returned
    covarianceResult,   \* the {matrix, symbols} estimateCovarianceMatrix returned
    optimizationResult, \* what the optimizer answered inside the try block
    assembled,          \* what the try block computed after the optimizer answered
    fallback,           \* what runSimpleOptimization computed
    outcome,            \* how runOptimization ended: returned value or rejection
    http,               \* the status the route answered with, 0 before it answers
    call,               \* a direct call of an engine method
    ret,                \* what the direct call answered
    loop,               \* the locals of the loop of riskParityOptimization
    suspended,          \* the locals of a second request, waiting at an await
    socket,             \* one WebSocket connection: its userId and its rooms
    cache               \* the quote cache of the one YahooFinanceService of the process

vars == <<pc, req, holdings, priceHistories, fetchLog, steps, expectedReturns,
          covarianceResult, optimizationResult, assembled, fallback, outcome, http,
          call, ret, loop, suspended, socket, cache>>

\* What a request and a direct call of an engine method leave alone.
otherVars == <<loop, suspended, socket, cache>>

requestVars == <<req, holdings, priceHistories, fetchLog, steps, expectedReturns,
                 covarianceResult, optimizationResult, assembled, fallback, outcome, http>>

None == [status |-> "none"]

Pending == [status |-> "pending"]

Returned(value) == [status |-> "returned", value |-> value]

Rejected(error) == [status |-> "rejected", error |-> error]

NoCall == [fn |-> "none"]

\* The request bodies considered. An absent max_position_size, lookback or
\* minPositionSize is 0 and an absent method name of the estimation is "".
Requests ==
    [method : OptimizationMethods \cup {"momentum"},
     risk_tolerance : {50, 150},
     max_position_size : {0},
     constraints : {[allowShortSelling |-> FALSE, minPositionSize |-> 0]},
     estimation : [returns : {"", "capm", "momentum"},
                   covariance : {"", "sample", "garch"},
                   lookback : {0, 2}]]

Holding(symbol, category, quantity, current_price, average_cost) ==
    [symbol |-> symbol, category |-> category, quantity |-> I(quantity),
     current_price |-> I(current_price), average_cost |-> I(average_cost)]

\* What the holdings query may answer: an error, or the rows of a portfolio.
HoldingsAnswers ==
    {Error("Error", <<"holdings query failed">>)} \cup
    {Ok(rows) : rows \in
        {<<>>,
         <<Holding("AAPL", "Technology", 10, 3, 2)>>,
         <<Holding("AAPL", "Technology", 10, 3, 2), Holding("XOM", "Energy", 5, 0, 4)>>,
         <<Holding("SPY", "Index", 2, 5, 5), Holding("AAPL", "Technology", 10, 3, 2)>>}}

\* What yahooFinanceService.getHistoricalData may answer for a symbol: the
\* error it throws, or a series of closes.
YahooOutcomes ==
    {Error("Error", <<"Failed to fetch historical data for ", "symbol">>)} \cup
    {Ok(series) : series \in {<<>>, <<1, 2>>, <<2, 1>>, <<2, 1, 3>>}}

\* The values Math.random() may give.
RandomValues == {Zero, Q(1, 2)}

\* The options the route hands to runOptimization (max_position_size = 30).
OptionsOf(body) ==
    [method |-> body.method,
     risk_tolerance |-> body.risk_tolerance,
     max_position_size |-> IF body.max_position_size = 0 THEN 30
                           ELSE body.max_position_size,
     constraints |-> body.constraints,
     estimation |-> body.estimation]

\* Lines 63-64: the symbols and the returns handed to the optimizer.
SymbolsOf(returns) == Keys(returns)

ReturnsArrayOf(returns) == [i \in 1..Len(returns) |-> OrElse(returns[i].v, Zero)]

Init ==
    /\ pc = "request"
    /\ req \in Requests
    /\ holdings = <<>>
    /\ priceHistories = <<>>
    /\ fetchLog = <<>>
    /\ steps = <<>>
    /\ expectedReturns = <<>>
    /\ covarianceResult = [matrix |-> <<>>, symbols |-> <<>>]
    /\ optimizationResult = None
    /\ assembled = None
    /\ fallback = None
    /\ outcome = Pending
    /\ http = 0
    /\ call = NoCall
    /\ ret = None
    /\ loop = None
    /\ suspended = None
    /\ cache = {}
    /\ socket = None

\* routes/optimization.js, lines 13-25: the validators of the route.
Validate ==
    /\ pc = "request"
    /\ IF req.method \in OptimizationMethods /\ req.risk_tolerance \in 0..100
       THEN pc' = "holdings" /\ http' = http
       ELSE pc' = "done" /\ http' = 400
    /\ UNCHANGED <<req, holdings, priceHistories, fetchLog, steps, expectedReturns,
                   covarianceResult, optimizationResult, assembled, fallback, outcome,
                   call, ret>>
    /\ UNCHANGED otherVars

\* Lines 13-30: the holdings query. getDatabase() of database/init.js is the
\* pg pool, which has no method `all`, so that there the query ends in an
\* error; a handle that does answer the query answers with rows.
FetchHoldings ==
    /\ pc = "holdings"
    /\ \E answer \in HoldingsAnswers :
         IF answer.status = "throw"
         THEN /\ outcome' = Rejected(answer.error)
              /\ pc' = "respond"
              /\ UNCHANGED <<holdings, steps>>
         ELSE IF Len(answer.value) = 0
         THEN /\ outcome' = Rejected(Thrown("No holdings found for optimization").error)
              /\ pc' = "respond"
              /\ UNCHANGED <<holdings, steps>>
         ELSE /\ holdings' = answer.value
              /\ steps' = Append(steps, "holdings")
              /\ pc' = "histories"
              /\ UNCHANGED outcome
    /\ UNCHANGED <<req, priceHistories, fetchLog, expectedReturns, covarianceResult,
                   optimizationResult, assembled, fallback, http, call, ret>>
    /\ UNCHANGED otherVars

\* Lines 35-46, one pass of the loop: the fetch of the next holding's history.
FetchHistory ==
    /\ pc = "histories"
    /\ \E answer \in YahooOutcomes :
         LET holding == holdings[Len(fetchLog) + 1]
         IN  /\ priceHistories' =
                    PutKey(priceHistories, holding.symbol, FetchedHistory(answer))
             /\ fetchLog' = Append(fetchLog,
                    [symbol |-> holding.symbol,
                     failed |-> answer.status = "throw",
                     series |-> IF answer.status = "ok" THEN answer.value ELSE <<>>])
    /\ IF Len(fetchLog) + 1 = Len(holdings)
       THEN pc' = "estimate" /\ steps' = Append(steps, "histories")
       ELSE pc' = "histories" /\ steps' = steps
    /\ UNCHANGED <<req, holdings, expectedReturns, covarianceResult, optimizationResult,
                   assembled, fallback, outcome, http, call, ret>>
    /\ UNCHANGED otherVars

\* Lines 49-60: the two estimation calls, outside the try block.
Estimate ==
    /\ pc = "estimate"
    /\ \E returns \in {estimateExpectedReturns(priceHistories,
                            ReturnsMethodOf(req.estimation),
                            EstimationOptions(req.estimation))},
          covariance \in {estimateCovarianceMatrix(priceHistories,
                            CovarianceMethodOf(req.estimation),
                            EstimationOptions(req.estimation))} :
           IF returns.status = "throw"
           THEN /\ outcome' = Rejected(returns.error)
                /\ pc' = "respond"
                /\ UNCHANGED <<expectedReturns, covarianceResult, steps>>
           ELSE IF covariance.status = "throw"
           THEN /\ outcome' = Rejected(covariance.error)
                /\ pc' = "respond"
                /\ UNCHANGED <<expectedReturns, covarianceResult, steps>>
           ELSE /\ expectedReturns' = returns.value
                /\ covarianceResult' = covariance.value
                /\ steps' = Append(steps, "estimation")
                /\ pc' = "optimize"
                /\ UNCHANGED outcome
    /\ UNCHANGED <<req, holdings, priceHistories, fetchLog, optimizationResult, assembled,
                   fallback, http, call, ret>>
    /\ UNCHANGED otherVars

\* Lines 63-134: the conversion to arrays and the switch on the method.
Optimize ==
    /\ pc = "optimize"
    /\ optimizationResult' =
           RunMethod(OptionsOf(req).method, ReturnsArrayOf(expectedReturns),
                     covarianceResult, constraintsForOptimization(OptionsOf(req)))
    /\ IF optimizationResult'.status = "throw"
       THEN pc' = "fallback" /\ steps' = steps
       ELSE pc' = "assemble" /\ steps' = Append(steps, "optimization")
    /\ UNCHANGED <<req, holdings, priceHistories, fetchLog, expectedReturns,
                   covarianceResult, assembled, fallback, outcome, http, call, ret>>
    /\ UNCHANGED otherVars

\* Lines 136-190: the allocation, its changes, the frontier, the trade plan
\* and the return; an error thrown here is caught at line 192.
Assemble ==
    /\ pc = "assemble"
    /\ assembled' =
           AssembleResult(OptionsOf(req), holdings, SymbolsOf(expectedReturns),
                          ReturnsArrayOf(expectedReturns), covarianceResult,
                          optimizationResult)
    /\ IF assembled'.end.status = "throw"
       THEN /\ pc' = "fallback"
            /\ steps' = Append(steps, "allocation")
            /\ UNCHANGED outcome
       ELSE /\ pc' = "respond"
            /\ steps' = steps \o <<"allocation", "plan">>
            /\ outcome' = Returned(assembled'.end.value)
    /\ UNCHANGED <<req, holdings, priceHistories, fetchLog, expectedReturns,
                   covarianceResult, optimizationResult, fallback, http, call, ret>>
    /\ UNCHANGED otherVars

\* Lines 192-196 and 200-246: the catch block returns what
\* runSimpleOptimization returns, and throws what it throws.
Fallback ==
    /\ pc = "fallback"
    /\ \E random \in [1..Len(holdings) -> RandomValues] :
         fallback' = runSimpleOptimization(holdings, OptionsOf(req).method,
                                           OptionsOf(req).constraints, random)
    /\ outcome' = IF fallback'.end.status = "throw" THEN Rejected(fallback'.end.error)
                  ELSE Returned(fallback'.end.value)
    /\ pc' = "respond"
    /\ UNCHANGED <<req, holdings, priceHistories, fetchLog, steps, expectedReturns,
                   covarianceResult, optimizationResult, assembled, http, call, ret>>
    /\ UNCHANGED otherVars

\* routes/optimization.js, lines 36-74: a returned result is saved, logged and
\* answered with 200, unless saving or logging fails; the catch answers 500.
Respond ==
    /\ pc = "respond"
    /\ IF outcome.status = "returned"
       THEN \E saved \in BOOLEAN : http' = IF saved THEN 200 ELSE 500
       ELSE http' = 500
    /\ pc' = "done"
    /\ UNCHANGED <<req, holdings, priceHistories, fetchLog, steps, expectedReturns,
                   covarianceResult, optimizationResult, assembled, fallback, outcome,
                   call, ret>>
    /\ UNCHANGED otherVars

Next ==
    \/ Validate
    \/ FetchHoldings
    \/ FetchHistory
    \/ Estimate
    \/ Optimize
    \/ Assemble
    \/ Fallback
    \/ Respond

Spec == Init /\ [][Next]_vars

(***************************************************************************)
(* Direct calls of the methods of PortfolioOptimizationEngine.             *)
(***************************************************************************)
MaxAssets == 2

WeightValues == {I(-1), Zero, Q(1, 4), Q(1, 2), I(2)}

ReturnValues == {Q(2, 100), Q(5, 100), Q(10, 100)}

VarianceValues == {Q(1, 100), Q(4, 100)}

CovarianceValues == {Q(-1, 100), Zero, Q(1, 100)}

ScenarioValues == {Q(-1, 10), Q(1, 10)}

Vectors(values, n) == [1..n -> values]

\* The place of the pair {i, j}, i # j, among the pairs of 1..n.
PairIndex(i, j) ==
    IF i < j THEN ((j - 1) * (j - 2)) \div 2 + i ELSE ((i - 1) * (i - 2)) \div 2 + j

\* The symmetric n x n matrices over VarianceValues and CovarianceValues.
SymMatrices(n) ==
    {[i \in 1..n |-> [j \in 1..n |-> IF i = j THEN d[i] ELSE o[PairIndex(i, j)]]] :
        d \in [1..n -> VarianceValues],
        o \in [1..((n * (n - 1)) \div 2) -> CovarianceValues]}

ConstraintSets ==
    [longOnly : {"true", "false", "undefined"},
     maxWeight : {Zero, Q(3, 10)},
     minWeight : {Zero, Q(1, 100)}]

\* No constraints, and the constraints runOptimization builds by default.
MethodConstraintSets ==
    {NoConstraints, [longOnly |-> "true", maxWeight |-> Q(3, 10), minWeight |-> Q(1, 100)]}

EngineCall(fn, weights, returns, covariance, constraints, scenarios, maxIterations) ==
    [fn |-> fn, weights |-> weights, returns |-> returns, covariance |-> covariance,
     constraints |-> constraints, scenarios |-> scenarios, maxIterations |-> maxIterations]

ApplyConstraintsCalls ==
    {EngineCall("applyConstraints", w, <<>>, <<>>, c, <<>>, 0) :
        w \in UNION {Vectors(WeightValues, n) : n \in 1..MaxAssets}, c \in ConstraintSets}

\* Returns and a covariance matrix of the same number of assets, and of 1
\* and 2 assets against each other.
ReturnsAndCovariances ==
    UNION {Vectors(ReturnValues, n) \X SymMatrices(n) : n \in 1..MaxAssets}
    \cup (Vectors(ReturnValues, 1) \X SymMatrices(2))
    \cup (Vectors(ReturnValues, 2) \X SymMatrices(1))

ReturnsAndCovarianceCalls(fn) ==
    {EngineCall(fn, <<>>, rm[1], rm[2], c, <<>>, 0) :
        rm \in ReturnsAndCovariances, c \in MethodConstraintSets}

RiskParityCalls ==
    {EngineCall("riskParityOptimization", <<>>, <<>>, m, NoConstraints, <<>>, k) :
        m \in UNION {SymMatrices(n) : n \in 1..MaxAssets}, k \in {1, DefaultMaxIterations}}

CVaRCalls ==
    {EngineCall("cvarOptimization", <<>>, <<>>, <<>>, NoConstraints, sc, 0) :
        sc \in {<<>>} \cup UNION {Vectors(Vectors(ScenarioValues, n), k) :
                                     n \in 1..MaxAssets, k \in 1..2}}

BlackLittermanCalls ==
    {EngineCall("blackLittermanOptimization", w, <<>>, m, NoConstraints, <<>>, 0) :
        w \in {<<One>>, <<Q(1, 2), Q(1, 2)>>, <<Q(1, 4), Q(3, 4)>>},
        m \in UNION {SymMatrices(n) : n \in 1..MaxAssets}}

\* maximizeSharpeRatio for one asset: a return below, at and above the
\* risk-free rate, under every constraint set.
SingleAssetCalls ==
    {EngineCall("maximizeSharpeRatio", <<>>, <<r>>, <<<<v>>>>, c, <<>>, 0) :
        r \in ReturnValues \cup {Q(1, 100)}, v \in VarianceValues, c \in ConstraintSets}

MaxScenarios == 20

\* Lists of 1, 10 and MaxScenarios scenarios for `assets` assets: the
\* component of asset a in scenario s is x where s * a is a multiple of p,
\* and y elsewhere.
ScenarioLists(assets) ==
    {[s \in 1..n |-> [a \in 1..assets |-> IF (s * a) % p = 0 THEN x ELSE y]] :
        n \in {1, 10, MaxScenarios}, p \in {1, 2, 3, MaxScenarios},
        x \in ScenarioValues, y \in ScenarioValues}

CalculateCVaRCalls ==
    UNION {{EngineCall("calculateCVaR", w, <<>>, <<>>, NoConstraints, sc, 0) :
               sc \in ScenarioLists(Len(w))} :
        w \in {<<One>>, <<Q(1, 2), Q(1, 2)>>, <<Q(1, 4), Q(3, 4)>>}}

\* generateEfficientFrontier for 1 or 2 returns against a 2 x 2 covariance
\* matrix, for 0, 1, 2 and 10 points.
FrontierCalls ==
    {[fn |-> "generateEfficientFrontier", returns |-> r, covariance |-> m, numPoints |-> k] :
        r \in Vectors(ReturnValues, 1) \cup Vectors(ReturnValues, 2),
        m \in SymMatrices(2), k \in {0, 1, 2, 10}}

EngineCalls ==
    ApplyConstraintsCalls \cup ReturnsAndCovarianceCalls("meanVarianceOptimization")
        \cup ReturnsAndCovarianceCalls("maximizeSharpeRatio") \cup RiskParityCalls
        \cup CVaRCalls \cup BlackLittermanCalls \cup SingleAssetCalls
        \cup CalculateCVaRCalls \cup FrontierCalls

\* The state of a direct call: no request is under way.
InitCall(calls) ==
    /\ pc = "call"
    /\ call \in calls
    /\ ret = Pending
    /\ req = [method |-> "none"]
    /\ holdings = <<>>
    /\ priceHistories = <<>>
    /\ fetchLog = <<>>
    /\ steps = <<>>
    /\ expectedReturns = <<>>
    /\ covarianceResult = [matrix |-> <<>>, symbols |-> <<>>]
    /\ optimizationResult = None
    /\ assembled = None
    /\ fallback = None
    /\ outcome = Pending
    /\ http = 0
    /\ loop = None
    /\ suspended = None
    /\ cache = {}
    /\ socket = None

\* The call of call.fn answers `answer`.
Answer(fn, answer) ==
    /\ pc = "call"
    /\ call.fn = fn
    /\ ret' = answer
    /\ pc' = "returned"
    /\ UNCHANGED <<call, req, holdings, priceHistories, fetchLog, steps, expectedReturns,
                   covarianceResult, optimizationResult, assembled, fallback, outcome,
                   http>>
    /\ UNCHANGED otherVars

InitEngine == InitCall(EngineCalls)

CallApplyConstraints ==
    Answer("applyConstraints",
           [status |-> "ok", weights |-> applyConstraints(call.weights, call.constraints)])

CallMeanVarianceOptimization ==
    Answer("meanVarianceOptimization",
           meanVarianceOptimization(call.returns, call.covariance, "null", call.constraints))

CallMaximizeSharpeRatio ==
    Answer("maximizeSharpeRatio",
           maximizeSharpeRatio(call.returns, call.covariance, call.constraints))

CallRiskParityOptimization ==
    Answer("riskParityOptimization",
           riskParityOptimization(call.covariance, call.maxIterations, DefaultTolerance))

CallCvarOptimization ==
    Answer("cvarOptimization",
           cvarOptimization(call.scenarios, Q(5, 100), call.constraints))

CallBlackLittermanOptimization ==
    Answer("blackLittermanOptimization",
           blackLittermanOptimization(call.weights, call.covariance, "none", Q(25, 1000)))

\* calculateCVaR at one of the two confidence levels 0.05 and 0.10.
CallCalculateCVaR ==
    \E level \in {Q(5, 100), Q(10, 100)} :
        Answer("calculateCVaR",
               [status |-> "ok", level |-> level,
                value |-> calculateCVaR(call.weights, call.scenarios, level)])

\* generateEfficientFrontier: the list it returns and the rejected promises
\* it leaves behind.
CallGenerateEfficientFrontier ==
    Answer("generateEfficientFrontier",
           [status |-> "ok",
            value |-> generateEfficientFrontier(call.returns, call.covariance,
                                                call.numPoints),
            unhandled |-> UnhandledRejections(call.returns, call.covariance,
                                              call.numPoints)])

NextEngine ==
    \/ CallGenerateEfficientFrontier
    \/ CallCalculateCVaR
    \/ CallApplyConstraints
    \/ CallMeanVarianceOptimization
    \/ CallMaximizeSharpeRatio
    \/ CallRiskParityOptimization
    \/ CallCvarOptimization
    \/ CallBlackLittermanOptimization

SpecEngine == InitEngine /\ [][NextEngine]_vars

(***************************************************************************)
(* Direct calls of the methods of InputEstimationEngine.                   *)
(***************************************************************************)
MaxHistLen == 3

MaxLevel == 1

\* The series of at most MaxHistLen closes over the levels 0..MaxLevel.
SeriesSet == UNION {[1..n -> 0..MaxLevel] : n \in 0..MaxHistLen}

\* Price histories of one symbol, or of that symbol and the market proxy.
PriceHistorySet ==
    {<<[k |-> "AAPL", v |-> a]>> : a \in SeriesSet} \cup
    {<<[k |-> "AAPL", v |-> a], [k |-> "SPY", v |-> b]>> :
        a \in SeriesSet, b \in {<<>>, <<1>>, <<0, 1>>, <<1, 0, 2>>}}

ReturnMethods == {"historical_mean", "exponential_weighted", "capm", "black_litterman"}

CovarianceMethods == {"sample", "shrinkage", "factor_model"}

EstimationCall(fn, priceHistory, method, options) ==
    [fn |-> fn, priceHistory |-> priceHistory, method |-> method, options |-> options]

OptionsSet == [lookback : {0, 1, 2}, shrinkageIntensity : {Zero, Q(1, 2)}]

EstimationCalls ==
    {EstimationCall("estimateExpectedReturns", h, m, o) :
        h \in PriceHistorySet, m \in ReturnMethods \cup {"momentum"},
        o \in {x \in OptionsSet : x.shrinkageIntensity = Zero}}
    \cup
    {EstimationCall("estimateCovarianceMatrix", h, m, o) :
        h \in PriceHistorySet, m \in CovarianceMethods \cup {"garch"}, o \in OptionsSet}
    \cup
    {EstimationCall(fn, h, "", o) :
        fn \in {"sampleCovarianceMatrix", "shrinkageCovarianceMatrix"},
        h \in PriceHistorySet, o \in OptionsSet}
    \cup
    {EstimationCall("estimateExpectedReturns", <<[k |-> "AAPL", v |-> a]>>, m,
                    [lookback |-> 0, shrinkageIntensity |-> Zero]) :
        a \in {<<0, -1, 1>>, <<-1, 0, 1>>, <<0, 1, -1>>, <<0, -2, 1>>, <<-2, 0, 1>>,
               <<-2, -2>>, <<-1, -1>>, <<0, -1>>},
        m \in {"historical_mean", "exponential_weighted"}}
    \cup
    {EstimationCall("sampleCovarianceMatrix",
                    <<[k |-> "AAPL", v |-> a], [k |-> "MSFT", v |-> b],
                      [k |-> "SPY", v |-> c]>>, "", o) :
        a \in {<<0, 1, 0>>, <<1>>}, b \in {<<1, 0, 1>>, <<0, 1>>, <<>>},
        c \in {<<>>, <<0, 1, 1>>}, o \in OptionsSet}

InitEstimation == InitCall(EstimationCalls)

CallEstimateExpectedReturns ==
    Answer("estimateExpectedReturns",
           estimateExpectedReturns(call.priceHistory, call.method, call.options))

CallEstimateCovarianceMatrix ==
    Answer("estimateCovarianceMatrix",
           estimateCovarianceMatrix(call.priceHistory, call.method, call.options))

CallSampleCovarianceMatrix ==
    Answer("sampleCovarianceMatrix",
           Ok(sampleCovarianceMatrix(call.priceHistory, call.options)))

CallShrinkageCovarianceMatrix ==
    Answer("shrinkageCovarianceMatrix",
           Ok(shrinkageCovarianceMatrix(call.priceHistory, call.options)))

NextEstimation ==
    \/ CallEstimateExpectedReturns
    \/ CallEstimateCovarianceMatrix
    \/ CallSampleCovarianceMatrix
    \/ CallShrinkageCovarianceMatrix

SpecEstimation == InitEstimation /\ [][NextEstimation]_vars

(***************************************************************************)
(* POST /apply/:id, and direct calls of generateImplementationPlan and      *)
(* calculateCurrentAllocation. In the rows of these calls a current_price  *)
(* is a number, 0 included.                                                *)
(***************************************************************************)
MaxHoldings == 3

MaxEntries == 3

\* The rows a holdings query may answer with: at most MaxHoldings of these
\* holdings.
PortfolioRows ==
    UNION {[1..n -> {Holding("AAPL", "Tech", 40, 1, 1), Holding("MSFT", "Tech", 20, 1, 2),
                     Holding("BND", "Bonds", 60, 1, 1), Holding("XOM", "Energy", 5, 0, 4),
                     Holding("GLD", "Gold", 0, 3, 3)}] : n \in 0..MaxHoldings}

\* What the row of optimization_results may hold: an array of entries
\* [category, percentage], or the object keyed by symbol that runOptimization
\* builds; "none" when no row is found.
StoredAllocations ==
    {[type |-> "none"], [type |-> "object", entries |-> <<>>]} \cup
    {[type |-> "array", items |-> items] : items \in
        {<<[category |-> "Tech", percentage |-> I(25)],
           [category |-> "Bonds", percentage |-> I(75)]>>,
         <<[category |-> "Tech", percentage |-> I(50)],
           [category |-> "Bonds", percentage |-> I(50)]>>,
         <<[category |-> "Bonds", percentage |-> I(100)]>>,
         <<[category |-> "Energy", percentage |-> Q(1, 2)],
           [category |-> "Tech", percentage |-> I(100)]>>}}

ApplyCalls ==
    {[fn |-> "apply", stored |-> a, currentHoldings |-> h] :
        a \in StoredAllocations,
        h \in {Error("Error", <<"holdings query failed">>)} \cup
              {Ok(rows) : rows \in PortfolioRows}}

\* Arrays of at most MaxEntries entries [name, change], and an object.
PlanCalls ==
    {[fn |-> "generateImplementationPlan",
      optimizedAllocation |-> [type |-> "object", entries |-> <<>>]]} \cup
    {[fn |-> "generateImplementationPlan",
      optimizedAllocation |->
          [type |-> "array",
           items |-> [i \in 1..Len(c) |->
                         [name |-> <<"Tech", "Bonds", "Energy", "Gold", "Cash">>[i],
                          change |-> c[i]]]]] :
        c \in UNION {[1..n -> {I(-6), I(-5), I(-1), Zero, I(1), I(2), I(6), NaN}] :
                         n \in 0..MaxEntries}}

AllocationCalls ==
    {[fn |-> "calculateCurrentAllocation", holdings |-> rows] : rows \in PortfolioRows}

InitPlan == InitCall(ApplyCalls \cup PlanCalls \cup AllocationCalls)

\* routes/optimization.js, lines 124-204: 404 when no result is stored, 200
\* with the trades, and 500 from the catch (a failed query, or forEach called
\* on a stored allocation that is not an array).
Apply ==
    Answer("apply",
           IF call.stored.type = "none"
           THEN [status |-> 404, error |-> "Optimization result not found"]
           ELSE IF call.currentHoldings.status = "throw" \/ call.stored.type # "array"
           THEN [status |-> 500, error |-> "Failed to apply optimization"]
           ELSE Let(ApplyTrades(call.stored.items, call.currentHoldings.value),
                    LAMBDA applied :
                        [status |-> 200,
                         message |-> "Optimization applied successfully",
                         trades |-> applied.trades,
                         total_value |-> applied.total_value]))

CallGenerateImplementationPlan ==
    Answer("generateImplementationPlan",
           generateImplementationPlan(<<>>, call.optimizedAllocation))

CallCalculateCurrentAllocation ==
    Answer("calculateCurrentAllocation", Ok(calculateCurrentAllocation(call.holdings)))

NextPlan ==
    \/ Apply
    \/ CallGenerateImplementationPlan
    \/ CallCalculateCurrentAllocation

SpecPlan == InitPlan /\ [][NextPlan]_vars

(***************************************************************************)
(* riskParityOptimization with its loop taken one pass at a time: loop     *)
(* holds iter and weights. The method runs without an await, so that a     *)
(* call that has begun is run to its return.                               *)
(***************************************************************************)
RiskParityLoopCalls == {c \in RiskParityCalls : Len(c.covariance) <= 2}

InitRiskParity == InitCall(RiskParityLoopCalls)

\* A pass of the loop body on `weights` (lines 80-99): the weights it leaves,
\* the change it measures, and what the method returns if it is the last.
PassOn(weights, covariance) ==
    Let(RiskParityStep(weights, covariance), LAMBDA next :
        [weights |-> next,
         change |-> WeightChange(next, weights),
         result |-> RiskParityResult(next, covariance)])

ConvergedNever(change, tolerance) == FALSE

\* if (change < tolerance) break
Converged(change, tolerance) == NLt(change, tolerance)

\* The passes of a loop of at most k >= 1 passes from `weights` on, up to
\* the pass that ends at the break: those of its first k \div 2 passes, then
\* the others.
RECURSIVE PassesFrom(_, _, _)
PassesFrom(weights, covariance, k) ==
    IF k = 1 THEN <<PassOn(weights, covariance)>>
    ELSE CHOOSE passes \in
             {IF Converged(first[Len(first)].change, DefaultTolerance) THEN first
              ELSE first \o PassesFrom(first[Len(first)].weights, covariance,
                                       k - k \div 2) :
                  first \in {PassesFrom(weights, covariance, k \div 2)}} : TRUE

\* The passes of every call from the equal weights on, worked out once, so
\* that whether a step of the loop is enabled is read off a table.
RiskParityPasses ==
    {[covariance |-> m,
      passes |-> PassesFrom(Fill(Len(m), NDiv(One, I(Len(m)))), m, DefaultMaxIterations)] :
        m \in {c.covariance : c \in RiskParityLoopCalls}}

\* Pass number k on `covariance`.
PassOf(covariance, k) ==
    (CHOOSE e \in RiskParityPasses : e.covariance = covariance).passes[k]

\* Lines 75-76 and the initialisation of the for statement. loop.passes
\* counts the passes made, the one ended by the break included.
EnterRiskParity ==
    /\ pc = "call"
    /\ call.fn = "riskParityOptimization"
    /\ loop' = [iter |-> 0, passes |-> 0,
                weights |-> Fill(Len(call.covariance), NDiv(One, I(Len(call.covariance))))]
    /\ pc' = "loop"
    /\ UNCHANGED <<call, ret, requestVars, suspended, socket, cache>>

\* Lines 79-100: a pass of the loop, taken while iter < maxIterations; it
\* ends at the break, or with iter++.
IterateRiskParity ==
    /\ pc = "loop"
    /\ loop.iter < call.maxIterations
    /\ \E pass \in {PassOf(call.covariance, loop.passes + 1)} :
         IF Converged(pass.change, DefaultTolerance)
         THEN /\ loop' = [iter |-> loop.iter, passes |-> loop.passes + 1,
                          weights |-> pass.weights]
              /\ pc' = "exit"
         ELSE /\ loop' = [iter |-> loop.iter + 1, passes |-> loop.passes + 1,
                          weights |-> pass.weights]
              /\ pc' = "loop"
    /\ UNCHANGED <<call, ret, requestVars, suspended, socket, cache>>

\* Lines 103-108, reached from the break or when iter < maxIterations fails.
ReturnRiskParity ==
    /\ pc = "exit" \/ (pc = "loop" /\ ~(loop.iter < call.maxIterations))
    /\ ret' = IF loop.passes = 0 THEN RiskParityResult(loop.weights, call.covariance)
              ELSE PassOf(call.covariance, loop.passes).result
    /\ pc' = "returned"
    /\ UNCHANGED <<call, loop, requestVars, suspended, socket, cache>>

NextRiskParity ==
    \/ EnterRiskParity
    \/ IterateRiskParity
    \/ ReturnRiskParity

SpecRiskParity ==
    InitRiskParity /\ [][NextRiskParity]_vars /\ WF_vars(NextRiskParity)

(***************************************************************************)
(* websocket/handlers.js: the handlers of one connected socket. socket has *)
(* the socket's userId (0 while it has none, and 0 in an event's data is a *)
(* falsy userId), its rooms as pairs <<prefix, id>> for the room named     *)
(* prefix_id, and whether it is connected.                                 *)
(***************************************************************************)
MaxUsers == 3

InitSocket ==
    /\ socket = [userId |-> 0, rooms |-> {}, connected |-> TRUE]
    /\ pc = "socket"
    /\ call = NoCall
    /\ ret = None
    /\ req = [method |-> "none"]
    /\ holdings = <<>>
    /\ priceHistories = <<>>
    /\ fetchLog = <<>>
    /\ steps = <<>>
    /\ expectedReturns = <<>>
    /\ covarianceResult = [matrix |-> <<>>, symbols |-> <<>>]
    /\ optimizationResult = None
    /\ assembled = None
    /\ fallback = None
    /\ outcome = Pending
    /\ http = 0
    /\ loop = None
    /\ suspended = None
    /\ cache = {}

\* socket.join(`${prefix}_${socket.userId}`)
JoinOwnRoom(prefix) ==
    [socket EXCEPT !.rooms = @ \cup {<<prefix, socket.userId>>}]

\* Lines 6-19: 'authenticate' with data {userId, token}.
Authenticate ==
    /\ socket.connected
    /\ \E userId \in 0..MaxUsers, token \in {"", "jwt"} :
         IF userId # 0 /\ token # ""
         THEN socket' = [socket EXCEPT !.userId = userId,
                                       !.rooms = @ \cup {<<"user", userId>>}]
         ELSE socket' = socket
    /\ UNCHANGED <<pc, call, ret, requestVars, loop, suspended, cache>>

\* Lines 22-27: 'subscribe_portfolio'.
SubscribePortfolio ==
    /\ socket.connected
    /\ socket' = IF socket.userId # 0 THEN JoinOwnRoom("portfolio") ELSE socket
    /\ UNCHANGED <<pc, call, ret, requestVars, loop, suspended, cache>>

\* Lines 52-57: 'subscribe_analytics'.
SubscribeAnalytics ==
    /\ socket.connected
    /\ socket' = IF socket.userId # 0 THEN JoinOwnRoom("analytics") ELSE socket
    /\ UNCHANGED <<pc, call, ret, requestVars, loop, suspended, cache>>

\* Lines 95-104: 'disconnect'. socket.io has taken the socket out of every
\* room when it emits the event, so that the three leave calls of the
\* handler find nothing to leave.
Disconnect ==
    /\ socket.connected
    /\ socket' = [socket EXCEPT !.rooms = {}, !.connected = FALSE]
    /\ UNCHANGED <<pc, call, ret, requestVars, loop, suspended, cache>>

NextSocket ==
    \/ Authenticate
    \/ SubscribePortfolio
    \/ SubscribeAnalytics
    \/ Disconnect

SpecSocket == InitSocket /\ [][NextSocket]_vars

(***************************************************************************)
(* Properties.                                                             *)
(*                                                                         *)
(* A tolerance of 1e-6 is below the precision of numbers of MantissaBits   *)
(* bits; a sum is taken to be 1 when it is within Tolerance of 1, 8 units  *)
(* in the last place of 1, which is wider than 1e-6.                       *)
(***************************************************************************)
Tolerance == <<1, 3 - MantissaBits>>

Near(x, y) == ~IsNaN(x) /\ ~IsNaN(y) /\ ~NGt(NAbs(NSub(x, y)), Tolerance)

Done(fn) == pc = "returned" /\ call.fn = fn

HasStep(step) == \E k \in 1..Len(steps) : steps[k] = step

\* C1: for every weight vector and every constraint set with longOnly = true,
\* the vector applyConstraints returns has every weight >= 0 and sums to 1
\* (within the tolerance), all-negative and all-zero inputs included.
C1_LongOnlyWeightsSumToOne ==
    (Done("applyConstraints") /\ call.constraints.longOnly = "true") =>
        /\ \A i \in 1..Len(ret.weights) :
               ~IsNaN(ret.weights[i]) /\ ~NLt(ret.weights[i], Zero)
        /\ Near(SumSeq(ret.weights), One)

\* The number of assets a call of an objective is about.
AssetsOf(c) ==
    CASE c.fn \in {"meanVarianceOptimization", "maximizeSharpeRatio"} -> Len(c.returns)
      [] c.fn = "riskParityOptimization" -> Len(c.covariance)
      [] c.fn = "cvarOptimization" -> Len(c.scenarios[1])
      [] c.fn = "blackLittermanOptimization" -> Len(c.weights)

\* C2: for each objective (mean-variance and min-volatility through
\* meanVarianceOptimization, max-sharpe, risk-parity, cvar-min,
\* black-litterman) the weight vector the engine returns has one weight per
\* asset and sums to 1.
C2_ObjectiveWeightsSumToOne ==
    (pc = "returned" /\ call.fn \in {"meanVarianceOptimization", "maximizeSharpeRatio",
                                      "riskParityOptimization", "cvarOptimization",
                                      "blackLittermanOptimization"}
                     /\ ret.status = "ok") =>
        /\ Len(ret.weights) = AssetsOf(call)
        /\ Near(SumSeq(ret.weights), One)

\* The result runOptimization returned is the equal-weight fallback: every
\* held symbol at 100/n percent, the estimation methods tagged.
IsSimpleFallback(result) ==
    /\ result.estimation_methods.returns = "simple_fallback"
    /\ result.estimation_methods.covariance = "simple_fallback"
    /\ Len(result.optimized_allocation.entries) = Len(holdings)
    /\ \A i \in 1..Len(holdings) :
           /\ result.optimized_allocation.entries[i].k = holdings[i].symbol
           /\ result.optimized_allocation.entries[i].v.percentage =
                  ToFixed2(NMul(NDiv(One, I(Len(holdings))), I(100)))

\* C3: whenever the optimization engine fails inside runOptimization,
\* runOptimization returns normally, with a result that gives every held
\* symbol the weight 1/n and is tagged 'simple_fallback'.
C3_EngineFailureReturnsFallback ==
    (pc = "done" /\ optimizationResult.status = "throw") =>
        outcome.status = "returned" /\ IsSimpleFallback(outcome.value)

\* The estimation step of the request threw: the histories were fetched and
\* the request ended without the estimation step completing.
EstimationFailed == HasStep("histories") /\ ~HasStep("estimation")

\* C4: an error raised by the estimation step or by the optimization step
\* never leaves runOptimization: the caller gets the simple_fallback result
\* and the route does not answer 500.
C4_EstimationAndEngineErrorsAreCaught ==
    (pc = "done" /\ (EstimationFailed \/ optimizationResult.status = "throw")) =>
        /\ outcome.status = "returned"
        /\ outcome.value.estimation_methods.returns = "simple_fallback"
        /\ http # 500

\* C5: if estimation and the selected optimizer complete without error,
\* runOptimization goes through holdings, histories, estimation,
\* optimization, allocation diff and trade plan in that order and returns a
\* result whose percentages are the optimizer's weights times 100 and whose
\* estimation_methods name the requested methods.
C5_SuccessPathReturnsOptimizerResult ==
    (pc = "done" /\ optimizationResult.status = "ok") =>
        /\ steps = <<"holdings", "histories", "estimation", "optimization",
                     "allocation", "plan">>
        /\ outcome.status = "returned"
        /\ \A i \in 1..Len(outcome.value.optimized_allocation.entries) :
               outcome.value.optimized_allocation.entries[i].v.percentage =
                   ToFixed2(NMul(At(optimizationResult.weights, i), I(100)))
        /\ outcome.value.estimation_methods.returns = ReturnsMethodOf(req.estimation)
        /\ outcome.value.estimation_methods.covariance =
               CovarianceMethodOf(req.estimation)

\* The place of a symbol among the symbols of the covariance estimate.
PlaceOf(symbol) ==
    CHOOSE j \in 1..Len(covarianceResult.symbols) : covarianceResult.symbols[j] = symbol

UnregisteredMethodCall ==
    \/ Done("estimateExpectedReturns") /\ call.method \notin ReturnMethods
    \/ Done("estimateCovarianceMatrix") /\ call.method \notin CovarianceMethods

\* C7: estimateExpectedReturns and estimateCovarianceMatrix called with a
\* method that is not registered fail with an error whose message contains
\* the method's name, and produce no estimate.
C7_UnknownMethodIsNamedInError ==
    UnregisteredMethodCall =>
        /\ ret.status = "throw"
        /\ "value" \notin DOMAIN ret
        /\ \E k \in 1..Len(ret.error.message) : ret.error.message[k] = call.method

C7_Witness ==
    /\ Done("estimateExpectedReturns")
    /\ call.method = "momentum"
    /\ ret.status = "throw"
    /\ ret.error.message[Len(ret.error.message)] = "momentum"

\* C8: historical_mean gives exactly 0 to every symbol with fewer than 2
\* prices after the lookback cut, raises no error, and gives every other
\* symbol the number it gives that symbol when estimated alone.
C8_ShortSeriesReturnIsZero ==
    (Done("estimateExpectedReturns") /\ call.method = "historical_mean") =>
        /\ ret.status = "ok"
        /\ Len(ret.value) = Len(call.priceHistory)
        /\ \A i \in 1..Len(call.priceHistory) :
               /\ ret.value[i].k = call.priceHistory[i].k
               /\ IF Len(SliceLast(call.priceHistory[i].v, LookbackOf(call.options))) < 2
                  THEN ret.value[i].v = Zero
                  ELSE ret.value[i].v =
                           historicalMeanReturns(<<call.priceHistory[i]>>,
                                                 call.options)[1].v

\* A history of two symbols: the first left with one price by the lookback
\* cut, the second with a non-zero mean return.
C8_Witness ==
    /\ Done("estimateExpectedReturns")
    /\ call.method = "historical_mean"
    /\ Len(call.priceHistory) = 2
    /\ Len(SliceLast(call.priceHistory[1].v, LookbackOf(call.options))) = 1
    /\ ret.status = "ok"
    /\ ret.value[1].v = Zero
    /\ ret.value[2].v # Zero

\* C9: shrinkageCovarianceMatrix called with shrinkageIntensity = 0 returns
\* the matrix sampleCovarianceMatrix returns for the same input, entry by
\* entry.
C9_ZeroShrinkageIsSampleCovariance ==
    (Done("shrinkageCovarianceMatrix") /\ call.options.shrinkageIntensity = Zero) =>
        ret.value.matrix = sampleCovarianceMatrix(call.priceHistory, call.options).matrix

\* A 2-asset covariance matrix with equal positive variances and zero covariance.
EqualVarianceUncorrelated(m) ==
    /\ Len(m) = 2
    /\ m[1][1] = m[2][2]
    /\ NGt(m[1][1], Zero)
    /\ m[1][2] = Zero
    /\ m[2][1] = Zero

\* C10: for a 2-asset covariance matrix with equal positive variances and
\* zero covariance, riskParityOptimization returns weights within 1e-6 of
\* [0.5, 0.5].
C10_RiskParityEqualSplit ==
    (Done("riskParityOptimization") /\ EqualVarianceUncorrelated(call.covariance)) =>
        /\ ret.status = "ok"
        /\ Len(ret.weights) = 2
        /\ \A i \in 1..2 :
               /\ ~IsNaN(ret.weights[i])
               /\ ~NGt(NAbs(NSub(ret.weights[i], Q(1, 2))), DefaultTolerance)

C10_Witness ==
    /\ Done("riskParityOptimization")
    /\ EqualVarianceUncorrelated(call.covariance)
    /\ call.maxIterations = DefaultMaxIterations
    /\ ret.weights = <<Q(1, 2), Q(1, 2)>>

\* C11: maximizeSharpeRatio called for a single asset returns the weight
\* vector [1], whatever the constraints and whatever the asset's expected
\* return, a return equal to or below the risk-free rate included.
C11_SingleAssetSharpeIsOne ==
    (Done("maximizeSharpeRatio") /\ Len(call.returns) = 1 /\ Len(call.covariance) = 1) =>
        (ret.status = "ok" /\ ret.weights = <<One>>)

\* The scenario of two uncorrelated assets: returns [0.10, 0.05] and
\* covariance [[0.04, 0], [0, 0.01]], handed to maximizeSharpeRatio.
TwoAssetScenario ==
    /\ Done("maximizeSharpeRatio")
    /\ call.returns = <<Q(10, 100), Q(5, 100)>>
    /\ call.covariance = <<<<Q(4, 100), Zero>>, <<Zero, Q(1, 100)>>>>

\* C12 as stated: in the two-asset scenario the first asset, whose own
\* Sharpe ratio is the higher (0.40 against 0.30), gets a strictly larger
\* weight than the second.
C12_HigherSharpeAssetWeighsMore ==
    TwoAssetScenario => (ret.status = "ok" /\ NGt(ret.weights[1], ret.weights[2]))

\* C12, amended: in the two-asset scenario maximizeSharpeRatio returns the
\* tangency weights, proportional to excess return over variance: [0.4, 0.6]
\* when no constraint is given, and [0.5, 0.5] when both are clamped to a
\* maxWeight of 0.3 and renormalised; the first asset never gets the larger
\* weight.
C12_TangencyWeights ==
    TwoAssetScenario =>
        /\ ret.status = "ok"
        /\ ~NGt(ret.weights[1], ret.weights[2])
        /\ call.constraints = NoConstraints =>
               /\ Near(ret.weights[1], Q(4, 10))
               /\ Near(ret.weights[2], Q(6, 10))
               /\ NLt(ret.weights[1], ret.weights[2])
        /\ call.constraints.maxWeight = Q(3, 10) => ret.weights = <<Q(1, 2), Q(1, 2)>>

C12_Witness ==
    /\ TwoAssetScenario
    /\ call.constraints = NoConstraints
    /\ NLt(ret.weights[1], ret.weights[2])

\* x <= y for numbers; false when either is NaN.
NLe(x, y) == NLt(x, y) \/ (x = y /\ ~IsNaN(x))

\* C13: for the same weights and the same non-empty scenario list, of any
\* length, calculateCVaR at level 0.05 returns a number that is at most the
\* number it returns at level 0.10.
C13_CVaROrdering ==
    (Done("calculateCVaR") /\ ret.level = Q(5, 100)) =>
        NLe(ret.value, calculateCVaR(call.weights, call.scenarios, Q(10, 100)))

\* C14: generateEfficientFrontier returns at most numPoints points, each with
\* a number >= 0 as expectedVolatility, a number as expectedReturn and a
\* weight vector, the expectedVolatility never decreasing along the list.
C14_FrontierPointsAreNumeric ==
    Done("generateEfficientFrontier") =>
        /\ Len(ret.value) <= call.numPoints
        /\ \A i \in 1..Len(ret.value) :
               /\ ret.value[i].expectedVolatility # "undefined"
               /\ ret.value[i].expectedReturn # "undefined"
               /\ ret.value[i].weights # "undefined"
               /\ NLe(Zero, ret.value[i].expectedVolatility)
        /\ \A i \in 1..(Len(ret.value) - 1) :
               NLe(ret.value[i].expectedVolatility, ret.value[i + 1].expectedVolatility)

\* C20: when the mean-variance solve of generateEfficientFrontier fails (here
\* for every target, on a dimension mismatch), no point is emitted for the
\* failing targets, the call returns normally and no rejected promise is
\* left without a handler.
C20_FailedSolveIsSkipped ==
    (Done("generateEfficientFrontier") /\ Len(call.returns) # Len(call.covariance)) =>
        /\ ret.status = "ok"
        /\ ret.value = <<>>
        /\ ret.unhandled = <<>>

\* The value of the holdings of a category, summed as the code sums values.
CategoryValue(rows, category) ==
    SumSeq([i \in 1..Len(rows) |->
               IF rows[i].category = category THEN HoldingValue(rows[i]) ELSE Zero])

\* The trades of an answer of POST /apply/:id that name `category`.
TradesFor(category) == SelectSeq(ret.trades, LAMBDA t : t.category = category)

\* C15: applying a stored allocation produces, for each of its categories
\* whose target value differs from the total current value of the category's
\* holdings by more than 1% of the portfolio's value, exactly one trade, SELL
\* when the target is below the current value and BUY otherwise, of amount
\* |target - current|; and no trade for the other categories.
C15_ApplyTradesPerCategory ==
    (Done("apply") /\ ret.status = 200) =>
        LET rows == call.currentHoldings.value
            totalValue == SumSeq([i \in 1..Len(rows) |-> HoldingValue(rows[i])])
        IN  \A a \in 1..Len(call.stored.items) :
                LET allocation == call.stored.items[a]
                    target == NMul(totalValue, NDiv(allocation.percentage, I(100)))
                    current == CategoryValue(rows, allocation.category)
                    difference == NSub(target, current)
                    trades == TradesFor(allocation.category)
                IN  IF NGt(NAbs(difference), NMul(totalValue, Q(1, 100)))
                    THEN /\ Len(trades) = 1
                         /\ trades[1].action = IF NLt(target, current) THEN "SELL" ELSE "BUY"
                         /\ trades[1].amount = NAbs(difference)
                    ELSE trades = <<>>

\* C16: whatever the held symbols and the registered estimation methods, the
\* returns and the covariance matrix that runOptimization hands to the
\* optimizer have the same length and the same symbol order, and the
\* optimizer does not answer with the dimension-mismatch error.
C16_DimensionsAgree ==
    HasStep("estimation") =>
        /\ Len(ReturnsArrayOf(expectedReturns)) = Len(covarianceResult.matrix)
        /\ SymbolsOf(expectedReturns) = covarianceResult.symbols
        /\ optimizationResult #
               Thrown("Dimension mismatch between returns and covariance matrix")

SymbolPercentage(rows, symbol) ==
    LET totalValue == SumSeq([i \in 1..Len(rows) |-> HoldingValue(rows[i])])
        value == SumSeq([i \in 1..Len(rows) |->
                            IF rows[i].symbol = symbol THEN HoldingValue(rows[i]) ELSE Zero])
    IN  IF NGt(totalValue, Zero) THEN NMul(NDiv(value, totalValue), I(100)) ELSE Zero

\* C18: for each symbol of the optimized allocation that runOptimization
\* builds, the change is the symbol's optimized percentage minus the
\* percentage of the current portfolio value held in that symbol.
C18_ChangeIsOptimizedMinusCurrent ==
    HasStep("allocation") =>
        \A i \in 1..Len(assembled.optimized_allocation.entries) :
            LET entry == assembled.optimized_allocation.entries[i]
            IN  entry.v.change =
                    NSub(entry.v.percentage, SymbolPercentage(holdings, entry.k))

\* The categories of the rows of a calculateCurrentAllocation call.
CategoriesHeld == {call.holdings[i].category : i \in 1..Len(call.holdings)}

\* |x - 100| is within 100 times Tolerance.
NearHundred(x) ==
    ~IsNaN(x) /\ ~NGt(NAbs(NSub(x, I(100))), NMul(I(100), Tolerance))

\* C19: calculateCurrentAllocation returns exactly one entry per distinct
\* category; the entry's value is the sum over the category's holdings of
\* quantity x current_price, a current price of 0 included (every row of
\* these calls has a current price); and the percentages sum to 100 when the
\* total value is > 0.
C19_AllocationPerCategory ==
    Done("calculateCurrentAllocation") =>
        LET rows == call.holdings
            entries == ret.value
            totalValue == SumSeq([i \in 1..Len(entries) |-> entries[i].value])
        IN  /\ {entries[i].name : i \in 1..Len(entries)} = CategoriesHeld
            /\ Len(entries) = Cardinality(CategoriesHeld)
            /\ \A i \in 1..Len(entries) :
                   entries[i].value =
                       SumSeq([h \in 1..Len(rows) |->
                                  IF rows[h].category = entries[i].name
                                  THEN NMul(rows[h].quantity, rows[h].current_price)
                                  ELSE Zero])
            /\ NGt(totalValue, Zero) =>
                   NearHundred(SumSeq([i \in 1..Len(entries) |-> entries[i].percentage]))

\* C21: a call of estimateExpectedReturns with the method black_litterman
\* returns a return vector with an entry for every symbol of the price
\* history, and does not throw.
C21_BlackLittermanReturnsVector ==
    (Done("estimateExpectedReturns") /\ call.method = "black_litterman") =>
        (ret.status = "ok" /\ Keys(ret.value) = Keys(call.priceHistory))

\* The matrix is square over the symbols of the price history and equals
\* its transpose.
SquareAndSymmetric(result, priceHistory) ==
    LET n == Len(priceHistory)
    IN  /\ result.symbols = Keys(priceHistory)
        /\ Len(result.matrix) = n
        /\ \A i \in 1..n : Len(result.matrix[i]) = n
        /\ \A i \in 1..n : \A j \in 1..n : result.matrix[i][j] = result.matrix[j][i]

\* C22: the matrix sampleCovarianceMatrix or shrinkageCovarianceMatrix
\* returns is square over the input symbols, symmetric, and every diagonal
\* entry is a number that is at least 0.
C22_CovarianceMatrixShape ==
    (pc = "returned"
        /\ call.fn \in {"sampleCovarianceMatrix", "shrinkageCovarianceMatrix"}) =>
        /\ SquareAndSymmetric(ret.value, call.priceHistory)
        /\ \A i \in 1..Len(call.priceHistory) :
               /\ IsFinite(ret.value.matrix[i][i])
               /\ NLe(Zero, ret.value.matrix[i][i])

\* The price history without its k-th symbol.
WithoutSymbol(priceHistory, k) ==
    [i \in 1..(Len(priceHistory) - 1) |-> priceHistory[IF i < k THEN i ELSE i + 1]]

\* The symbols of a price history with fewer than 2 price points.
NoUsableHistory(priceHistory) ==
    {k \in 1..Len(priceHistory) : Len(priceHistory[k].v) < 2}

\* C23: in the matrix sampleCovarianceMatrix returns, a symbol with fewer than
\* 2 price points has 0.01 on the diagonal and 0 in every other entry of its
\* row and column, and the entries between the other symbols are those of the
\* matrix computed without that symbol.
C23_SymbolWithoutHistory ==
    Done("sampleCovarianceMatrix") =>
        \A k \in NoUsableHistory(call.priceHistory) :
            /\ ret.value.matrix[k][k] = Q(1, 100)
            /\ \A j \in 1..Len(call.priceHistory) :
                   j # k => /\ ret.value.matrix[k][j] = Zero
                            /\ ret.value.matrix[j][k] = Zero
            /\ Minor(ret.value.matrix, k, k) =
                   sampleCovarianceMatrix(WithoutSymbol(call.priceHistory, k),
                                          call.options).matrix

\* A three-symbol call where one symbol has no price point and the entry
\* between the other two is a finite number other than 0.
C23_Witness ==
    /\ Done("sampleCovarianceMatrix")
    /\ Len(call.priceHistory) = 3
    /\ NoUsableHistory(call.priceHistory) = {3}
    /\ IsFinite(ret.value.matrix[1][2])
    /\ ret.value.matrix[1][2] # Zero
    /\ ret.value.matrix[3][3] = Q(1, 100)

\* The price points of a series whose close is positive.
PositiveCloses(prices) == SelectSeq(prices, LAMBDA close : close >= 0)

\* C24: historicalMeanReturns and exponentialWeightedReturns skip a price
\* point whose close is zero or negative: the return of a symbol is the one of
\* its positive closes alone, and it is a finite number when the symbol has at
\* least two positive closes.
C24_NonPositiveClosesAreSkipped ==
    (Done("estimateExpectedReturns") /\ call.options.lookback = 0
        /\ call.method \in {"historical_mean", "exponential_weighted"}) =>
        \A i \in 1..Len(call.priceHistory) :
            LET prices == call.priceHistory[i].v
            IN  /\ ret.value[i].v =
                       IF call.method = "historical_mean"
                       THEN historicalMeanOf(PositiveCloses(prices))
                       ELSE exponentialWeightedOf(PositiveCloses(prices))
                /\ Len(PositiveCloses(prices)) >= 2 => IsFinite(ret.value[i].v)

\* C25: on the cvar-min path of runOptimization, with finite expected returns
\* and a finite covariance matrix, generateMonteCarloScenarios returns
\* NumScenarios vectors with one finite component per asset (a return times
\* the horizon plus a shock), and the expectedCVaR computed from them is a
\* finite number.
C25_ScenariosAndCVaRAreFinite ==
    (OptionsOf(req).method = "cvar-min" /\ optimizationResult.status = "ok"
        /\ \A i \in 1..Len(expectedReturns) :
               /\ IsFinite(expectedReturns[i].v)
               /\ \A j \in 1..Len(expectedReturns) :
                      IsFinite(covarianceResult.matrix[i][j])) =>
        LET returnsArray == ReturnsArrayOf(expectedReturns)
            scenarios ==
                generateMonteCarloScenarios(returnsArray, covarianceResult, NumScenarios)
        IN  /\ Len(scenarios) = NumScenarios
            /\ \A s \in 1..NumScenarios :
                   /\ Len(scenarios[s]) = Len(returnsArray)
                   /\ \A i \in 1..Len(returnsArray) : IsFinite(scenarios[s][i])
            /\ IsFinite(optimizationResult.expectedCVaR)

\* C26: for the min-volatility objective, the target return runOptimization
\* passes to meanVarianceOptimization is at least the smallest expected
\* return of the universe, for every vector of finite returns.
C26_TargetIsAtLeastMinimum ==
    (OptionsOf(req).method = "min-volatility" /\ optimizationResult.status = "ok"
        /\ \A i \in 1..Len(expectedReturns) : IsFinite(expectedReturns[i].v)) =>
        NLe(MinOf(ReturnsArrayOf(expectedReturns)),
            MinVolatilityTarget(ReturnsArrayOf(expectedReturns)))

\* C27: every call of riskParityOptimization returns; its loop never starts
\* a pass with iter at maxIterations or above, and it goes on to another
\* pass only after a pass whose summed absolute weight change is not below
\* the tolerance. Every pass is a pass of the loop body on the weights of
\* the pass before, and what the call returns is what the method returns
\* when taken as one step.
C27_RiskParityTerminates ==
    /\ [](pc = "loop" => loop.iter <= call.maxIterations)
    /\ [][(pc = "loop" /\ pc' = "loop") =>
             /\ loop.iter < call.maxIterations
             /\ loop'.iter = loop.iter + 1
             /\ ~NLt(WeightChange(loop'.weights, loop.weights), DefaultTolerance)]_vars
    /\ [][IterateRiskParity =>
             /\ loop'.weights = RiskParityStep(loop.weights, call.covariance)
             /\ loop'.passes = loop.passes + 1]_vars
    /\ [](pc = "returned" =>
             ret = riskParityOptimization(call.covariance, call.maxIterations,
                                          DefaultTolerance))
    /\ <>(pc = "returned")

\* A call with the default maxIterations that left the loop at the break
\* after passes that did not converge.
C27_Witness ==
    /\ pc = "returned"
    /\ call.maxIterations = DefaultMaxIterations
    /\ loop.iter \in 1..(DefaultMaxIterations - 1)

\* C29: in the vector applyConstraints returns, no weight is above
\* constraints.maxWeight when maxWeight is set, and none is below
\* constraints.minWeight when minWeight is set.
C29_WeightsWithinLimits ==
    Done("applyConstraints") =>
        /\ Truthy(call.constraints.maxWeight) =>
               \A i \in 1..Len(ret.weights) :
                   NLe(ret.weights[i], call.constraints.maxWeight)
        /\ Truthy(call.constraints.minWeight) =>
               \A i \in 1..Len(ret.weights) :
                   NLe(call.constraints.minWeight, ret.weights[i])

\* C30: a connected socket is in a room user_X, portfolio_X or analytics_X
\* only if X is the userId it has now, and in none of them while it has no
\* userId.
C30_RoomsBelongToCurrentUser ==
    socket.connected =>
        \A room \in socket.rooms :
            room[1] \in {"user", "portfolio", "analytics"} =>
                (socket.userId # 0 /\ room[2] = socket.userId)

(***************************************************************************)
(* Two requests in flight.                                                 *)
(*                                                                         *)
(* Node runs one request until it awaits, and then may go on with the      *)
(* other. pc, req ... http are the request that is running and suspended   *)
(* holds the locals of the one that waits at an await. What the process    *)
(* shares between them is the one YahooFinanceService with its quote       *)
(* cache, which getQuote fills.                                            *)
(***************************************************************************)
PairMethods == {"mean-variance", "risk-parity"}

PairRequests ==
    {r \in Requests :
        /\ r.method \in PairMethods
        /\ r.risk_tolerance = 50
        /\ r.estimation = [returns |-> "", covariance |-> "sample", lookback |-> 0]}

PairPortfolios ==
    {<<>>,
     <<Holding("SPY", "Index", 2, 5, 5), Holding("AAPL", "Technology", 10, 3, 2)>>}

PairSeries == {<<1, 2>>, <<2, 1, 3>>}

\* Lines 6-71: the parameters, constants and variables of one call of
\* runOptimization, and where the call has got to.
Locals ==
    [pc |-> pc, req |-> req, holdings |-> holdings, priceHistories |-> priceHistories,
     fetchLog |-> fetchLog, steps |-> steps, expectedReturns |-> expectedReturns,
     covarianceResult |-> covarianceResult, optimizationResult |-> optimizationResult,
     assembled |-> assembled, fallback |-> fallback, outcome |-> outcome, http |-> http]

\* Line 34: priceHistories is a constant of the call, so that the request
\* that resumes goes on with the object it created itself, whatever the
\* request that ran meanwhile wrote to its own.
ResumedHistoriesShared(own, running) == running

ResumedHistories(own, running) == own

\* The call is between the holdings query and its end.
InFlight(locals) == locals.pc \in {"histories", "estimate", "optimize", "assemble"}

InitPair ==
    /\ pc = "request"
    /\ req \in PairRequests
    /\ holdings = <<>>
    /\ priceHistories = <<>>
    /\ fetchLog = <<>>
    /\ steps = <<>>
    /\ expectedReturns = <<>>
    /\ covarianceResult = [matrix |-> <<>>, symbols |-> <<>>]
    /\ optimizationResult = None
    /\ assembled = None
    /\ fallback = None
    /\ outcome = Pending
    /\ http = 0
    /\ call = NoCall
    /\ ret = None
    /\ loop = None
    /\ \E other \in PairRequests :
         suspended = [overlapped |-> FALSE,
                      locals |-> [pc |-> "request", req |-> other, holdings |-> <<>>,
                                  priceHistories |-> <<>>, fetchLog |-> <<>>,
                                  steps |-> <<>>, expectedReturns |-> <<>>,
                                  covarianceResult |-> [matrix |-> <<>>, symbols |-> <<>>],
                                  optimizationResult |-> None, assembled |-> None,
                                  fallback |-> None, outcome |-> Pending, http |-> 0]]
    /\ socket = None
    /\ cache = {}

\* One step of the running request, for the portfolios and series above.
Run ==
    /\ Next
    /\ holdings' \in PairPortfolios
    /\ \A i \in 1..Len(fetchLog') : fetchLog'[i].series \in PairSeries

\* The running request waits at an await (or has been answered) and the
\* other one goes on. Between the throw in the try block and the catch of
\* line 192 there is no await.
Switch ==
    /\ pc # "fallback"
    /\ suspended.locals.pc # "done"
    /\ suspended' = [overlapped |-> \/ suspended.overlapped
                                    \/ InFlight(Locals) /\ InFlight(suspended.locals),
                     locals |-> Locals]
    /\ pc' = suspended.locals.pc
    /\ req' = suspended.locals.req
    /\ holdings' = suspended.locals.holdings
    /\ priceHistories' = ResumedHistories(suspended.locals.priceHistories, priceHistories)
    /\ fetchLog' = suspended.locals.fetchLog
    /\ steps' = suspended.locals.steps
    /\ expectedReturns' = suspended.locals.expectedReturns
    /\ covarianceResult' = suspended.locals.covarianceResult
    /\ optimizationResult' = suspended.locals.optimizationResult
    /\ assembled' = suspended.locals.assembled
    /\ fallback' = suspended.locals.fallback
    /\ outcome' = suspended.locals.outcome
    /\ http' = suspended.locals.http
    /\ UNCHANGED <<call, ret, loop, socket, cache>>

\* part_012, lines 20-58: getQuote, called by the market data updates, sets
\* the entry of the symbol in the shared cache.
GetQuote ==
    /\ \E symbol \in {"AAPL"}, price \in {1} :
         cache' = {entry \in cache : entry.key # <<"quote", symbol>>} \cup
                  {[key |-> <<"quote", symbol>>, data |-> price]}
    /\ UNCHANGED <<pc, call, ret, requestVars, loop, suspended, socket>>

NextPair ==
    \/ Run
    \/ Switch
    \/ GetQuote

SpecPair == InitPair /\ [][NextPair]_vars

\* Lines 35-46: the object the fetch loop builds from what the fetches of
\* one request answered.
RECURSIVE HistoriesOf(_)
HistoriesOf(log) ==
    IF log = <<>> THEN <<>>
    ELSE PutKey(HistoriesOf(SubSeq(log, 1, Len(log) - 1)), log[Len(log)].symbol,
                FetchedHistory(IF log[Len(log)].failed
                               THEN Error("Error", <<"Failed to fetch historical data">>)
                               ELSE Ok(log[Len(log)].series)))

\* Lines 192-196: what the catch block may return or throw.
SimpleOutcomes(request, rows) ==
    {IF simple.end.status = "throw" THEN Rejected(simple.end.error)
     ELSE Returned(simple.end.value) :
        simple \in {runSimpleOptimization(rows, OptionsOf(request).method,
                                          OptionsOf(request).constraints, random) :
                        random \in [1..Len(rows) -> RandomValues]}}

\* Lines 49-134 of a request that runs with no other request in flight: its
\* estimates and what the optimizer answers, given what its fetches answered.
AloneEstimates(request, log) ==
    Let(HistoriesOf(log), LAMBDA histories :
    Let(estimateExpectedReturns(histories, ReturnsMethodOf(request.estimation),
                                EstimationOptions(request.estimation)), LAMBDA returns :
    Let(estimateCovarianceMatrix(histories, CovarianceMethodOf(request.estimation),
                                 EstimationOptions(request.estimation)),
        LAMBDA covariance :
            [returns |-> returns,
             covariance |-> covariance,
             result |-> IF returns.status = "throw" \/ covariance.status = "throw"
                        THEN None
                        ELSE RunMethod(OptionsOf(request).method,
                                       ReturnsArrayOf(returns.value), covariance.value,
                                       constraintsForOptimization(OptionsOf(request)))])))

\* Lines 5-196: how runOptimization may end for a request that runs alone,
\* given the rows the holdings query answered and what its fetches answered.
AloneOutcomes(request, rows, log) ==
    IF rows = <<>>
    THEN {Rejected(answer.error) : answer \in {a \in HoldingsAnswers : a.status = "throw"}}
         \cup {Rejected(Thrown("No holdings found for optimization").error)}
    ELSE Let(AloneEstimates(request, log), LAMBDA alone :
            IF alone.returns.status = "throw" THEN {Rejected(alone.returns.error)}
            ELSE IF alone.covariance.status = "throw"
            THEN {Rejected(alone.covariance.error)}
            ELSE IF alone.result.status = "throw" THEN SimpleOutcomes(request, rows)
            ELSE Let(AssembleResult(OptionsOf(request), rows,
                                    SymbolsOf(alone.returns.value),
                                    ReturnsArrayOf(alone.returns.value),
                                    alone.covariance.value, alone.result),
                     LAMBDA answer :
                        IF answer.end.status = "throw" THEN SimpleOutcomes(request, rows)
                        ELSE {Returned(answer.end.value)}))

\* The vectors, the matrix and the result of a request are those of the same
\* request running alone.
RunsAsAlone(locals) ==
    /\ locals.priceHistories = HistoriesOf(locals.fetchLog)
    /\ (\E i \in 1..Len(locals.steps) : locals.steps[i] = "estimation")
           => Let(AloneEstimates(locals.req, locals.fetchLog), LAMBDA alone :
                /\ locals.expectedReturns = alone.returns.value
                /\ locals.covarianceResult = alone.covariance.value
                /\ locals.pc # "optimize" => locals.optimizationResult = alone.result)
    /\ locals.outcome.status # "pending"
           => locals.outcome \in AloneOutcomes(locals.req, locals.holdings, locals.fetchLog)

\* C28: each of two requests whose steps interleave at their awaits computes
\* and returns what it does when it runs alone on the same answers of the
\* holdings query and of the fetches: nothing one request reads was written
\* by the other.
C28_InterleavedRequestsRunAlone ==
    RunsAsAlone(Locals) /\ RunsAsAlone(suspended.locals)

\* Both requests were in flight at once, fetched the same symbols, were
\* answered with different series and estimated different returns, and both
\* have been through the optimizer and the catch block to their end.
C28_Witness ==
    /\ pc = "done"
    /\ suspended.locals.pc = "done"
    /\ suspended.overlapped
    /\ fallback # None
    /\ suspended.locals.fallback # None
    /\ outcome.status # "pending"
    /\ suspended.locals.outcome.status # "pending"
    /\ expectedReturns # suspended.locals.expectedReturns
    /\ \A i \in 1..Len(fetchLog) :
         /\ fetchLog[i].symbol = suspended.locals.fetchLog[i].symbol
         /\ fetchLog[i].series # suspended.locals.fetchLog[i].series
    /\ cache # {}

====
